---- MODULE Spec2Model ----
(***************************************************************************)
(* The redundancy-elimination transform of the Relay compiler,             *)
(* compiler/crates/graphql-transforms/src/skip_redundant_nodes.rs, as a    *)
(* state machine over a Program of operations and fragments.               *)
(***************************************************************************)
EXTENDS Integers, Sequences, FiniteSets, TLC

VARIABLES program, cache, operations, fragments, next_program, pc, view,
          project_config, graphql_asts, build_ir_result,
          programs, artifacts, persist_calls,
          self_config, compiler_state, ast_sets, errors, stdout, remaining_projects,
          error_call, validation_error, error_with_sources, printed, displayed,
          call, returned

\* The state of a build of a project.
build_vars == <<project_config, graphql_asts, build_ir_result,
                programs, artifacts, persist_calls>>

\* The state of Compiler::compile.
compile_vars == <<self_config, compiler_state, ast_sets, errors, stdout, remaining_projects>>
\* The state of a ValidationError that is built and printed.
error_vars == <<error_call, validation_error, error_with_sources, printed, displayed>>
\* A call of a function and what it returns.
call_vars == <<call, returned>>
compiler_vars == <<compile_vars, error_vars, call_vars>>
vars == <<program, cache, operations, fragments, next_program, pc, view, build_vars,
          compiler_vars>>

(***************************************************************************)
(* Bounds of the model.                                                    *)
(***************************************************************************)
\* Largest number of selections (nodes of the selection trees) of a program.
MaxNodes == 5

\* The same for the programs that hold inline fragments and conditions only.
MaxNodesConditionals == 6

\* The same for the programs whose scalar fields vary in alias and arguments.
MaxNodesIdentity == 4
MaxNodesLinked == 8
MaxNodesShared == 5
MaxNodesWorkers == 6

\* The same for the programs with @module inline fragments.
MaxNodesMetadata == 4

\* The most fragment spreads of a definition of a source set.
MaxSpreads == 1

\* The most nodes of the selections of a program whose artifacts are generated.
MaxNodesArtifacts == 3

(***************************************************************************)
(* The IR (graphql_ir): selections, definitions, programs.                 *)
(* A shared reference (Arc) is its `ptr`: 0 for a node held by one owner   *)
(* only (strong count 1), an address > 0 for a node held by several.       *)
(***************************************************************************)
ScalarField(alias, name, arguments) ==
    [kind |-> "ScalarField", alias |-> alias, name |-> name,
     arguments |-> arguments, directives |-> <<>>]

LinkedField(alias, name, arguments, selections, ptr) ==
    [kind |-> "LinkedField", alias |-> alias, name |-> name,
     arguments |-> arguments, directives |-> <<>>,
     selections |-> selections, ptr |-> ptr]

FragmentSpread(fragment) ==
    [kind |-> "FragmentSpread", fragment |-> fragment,
     arguments |-> <<>>, directives |-> <<>>]

InlineFragment(type_condition, directives, selections, ptr) ==
    [kind |-> "InlineFragment", type_condition |-> type_condition,
     directives |-> directives, selections |-> selections, ptr |-> ptr]

Condition(passing_value, value, selections) ==
    [kind |-> "Condition", passing_value |-> passing_value, value |-> value,
     selections |-> selections]

\* No alias (Option::None).
NoAlias == ""

Argument(name, value) == [name |-> name, value |-> value]

Directive(name, arguments) == [name |-> name, arguments |-> arguments]

IsField(sel) == sel.kind \in {"LinkedField", "ScalarField"}
IsLeaf(sel) == sel.kind \in {"ScalarField", "FragmentSpread"}
IsComposite(sel) == ~IsLeaf(sel)

\* Arc::strong_count of a linked field or inline fragment.
strong_count(sel) == IF sel.ptr = 0 THEN 1 ELSE 2

\* PointerAddress::new
PointerAddress(sel) == sel.ptr

(***************************************************************************)
(* Node identity (NodeIdentifier::from_selection) and the custom inline    *)
(* fragment directives.                                                    *)
(***************************************************************************)
\* Directives the transform library injects; they are no part of an identity.
InternalDirectives == {"__metadata"}

\* The directives that make an inline fragment a retrieval scope of its own.
RelayCustomInlineFragmentDirectives == {"defer", "module"}

is_relay_custom_inline_fragment_directive(directive) ==
    directive.name \in RelayCustomInlineFragmentDirectives

\* The schema: the type of a field by its name.
schema == [name \in {"id", "x", "y", "a", "b"} |->
              CASE name = "id" -> "ID"
                [] name \in {"x", "y"} -> "String"
                [] OTHER -> "User"]

alias_or_name(field) == IF field.alias # NoAlias THEN field.alias ELSE field.name

\* Arguments are compared as a set (sorted by name).
canonicalized_arguments(arguments) == {arguments[i] : i \in DOMAIN arguments}

user_directives(directives) ==
    SelectSeq(directives, LAMBDA d : d.name \notin InternalDirectives)

from_selection(sch, selection) ==
    CASE selection.kind \in {"ScalarField", "LinkedField"} ->
             [kind |-> selection.kind,
              alias_or_name |-> alias_or_name(selection),
              type |-> sch[selection.name],
              arguments |-> canonicalized_arguments(selection.arguments),
              directives |-> user_directives(selection.directives)]
      [] selection.kind = "FragmentSpread" ->
             [kind |-> "FragmentSpread",
              fragment |-> selection.fragment,
              arguments |-> canonicalized_arguments(selection.arguments),
              directives |-> user_directives(selection.directives)]
      [] selection.kind = "InlineFragment" ->
             [kind |-> "InlineFragment",
              type_condition |-> selection.type_condition,
              directives |-> user_directives(selection.directives)]
      [] selection.kind = "Condition" ->
             [kind |-> "Condition",
              passing_value |-> selection.passing_value,
              value |-> selection.value]

(***************************************************************************)
(* SelectionMap: NodeIdentifier -> Option<SelectionMap>.                   *)
(***************************************************************************)
EmptyMap == <<>>
None == [some |-> FALSE]
Some(selection_map) == [some |-> TRUE, map |-> selection_map]

contains_key(selection_map, identifier) == identifier \in DOMAIN selection_map
insert(selection_map, identifier, value) == (identifier :> value) @@ selection_map
\* `if let Some(Some(m)) = selection_map.0.get_mut(&identifier)`
has_sub_map(selection_map, identifier) ==
    /\ contains_key(selection_map, identifier)
    /\ selection_map[identifier].some

(***************************************************************************)
(* Transformed<T> = Keep | Delete | Replace(T);                            *)
(* TransformedValue<T> = Keep | Replace(T).                                *)
(***************************************************************************)
Keep == [t |-> "Keep"]
Delete == [t |-> "Delete"]
Replace(v) == [t |-> "Replace", v |-> v]

(***************************************************************************)
(* get_partitioned_selections: fields first, the other selections last,    *)
(* written into a pre-sized buffer by two indices.                         *)
(***************************************************************************)
Uninit == [kind |-> "uninitialized"]

\* The state of the loop: the buffer, the two indices and the slots that
\* were written, in the order of the writes, all counted from 0.
Partition(result, field_index, non_field_index, writes) ==
    [result |-> result, field_index |-> field_index,
     non_field_index |-> non_field_index, writes |-> writes]

\* The loop with the fields written from the end of the buffer.
RECURSIVE partition_loop_fields_last(_, _, _)
partition_loop_fields_last(selections, i, partition) ==
    IF i > Len(selections) THEN partition
    ELSE IF IsField(selections[i])
         THEN partition_loop_fields_last(
                  selections, i + 1,
                  Partition([partition.result EXCEPT
                                 ![Len(selections) - partition.field_index] =
                                     selections[i]],
                            partition.field_index + 1, partition.non_field_index,
                            Append(partition.writes,
                                   Len(selections) - partition.field_index - 1)))
         ELSE partition_loop_fields_last(
                  selections, i + 1,
                  Partition([partition.result EXCEPT
                                 ![partition.non_field_index
                                       - Len(SelectSeq(selections, IsField)) + 1] =
                                     selections[i]],
                            partition.field_index, partition.non_field_index + 1,
                            Append(partition.writes,
                                   partition.non_field_index
                                       - Len(SelectSeq(selections, IsField)))))

RECURSIVE partition_loop(_, _, _)
partition_loop(selections, i, partition) ==
    IF i > Len(selections) THEN partition
    ELSE IF IsField(selections[i])
         THEN partition_loop(
                  selections, i + 1,
                  Partition([partition.result EXCEPT
                                 ![partition.field_index + 1] = selections[i]],
                            partition.field_index + 1, partition.non_field_index,
                            Append(partition.writes, partition.field_index)))
         ELSE partition_loop(
                  selections, i + 1,
                  Partition([partition.result EXCEPT
                                 ![partition.non_field_index + 1] = selections[i]],
                            partition.field_index, partition.non_field_index + 1,
                            Append(partition.writes, partition.non_field_index)))

\* The buffer of `set_len` and the indices before the loop.
partition_start(selections) ==
    Partition([i \in 1..Len(selections) |-> Uninit], 0,
              Len(SelectSeq(selections, IsField)), <<>>)

get_partitioned_selections(selections) ==
    partition_loop(selections, 1, partition_start(selections)).result

(***************************************************************************)
(* SkipRedundantNodesTransform.  Every transform_* takes the selection map *)
(* and the cache as they are before the call and returns them as they are  *)
(* after it, with the Transformed result.                                  *)
(***************************************************************************)
RECURSIVE transform_selection(_, _, _)
RECURSIVE transform_linked_field(_, _, _)
RECURSIVE transform_condition(_, _, _)
RECURSIVE transform_inline_fragment(_, _, _)
RECURSIVE transform_selections(_, _, _)
RECURSIVE transform_selections_loop(_, _, _, _, _, _)
RECURSIVE transform_selections_step(_, _, _, _, _)

Out(result, selection_map, c) == [result |-> result, map |-> selection_map, cache |-> c]

\* A scalar field or fragment spread that is kept whatever the map holds.
transform_leaf_kept(identifier, selection_map, c) ==
    Out(Keep, insert(selection_map, identifier, None), c)

\* A leaf that is deleted when the map holds any selection of its kind.
transform_leaf_of_kind(identifier, selection_map, c) ==
    IF \E key \in DOMAIN selection_map : key.kind = identifier.kind
    THEN Out(Delete, selection_map, c)
    ELSE Out(Keep, insert(selection_map, identifier, None), c)

\* A leaf that is deleted whatever the map holds.
transform_leaf_deleted(identifier, selection_map, c) ==
    Out(Delete, selection_map, c)

\* Selection::ScalarField and Selection::FragmentSpread
transform_leaf(identifier, selection_map, c) ==
    IF contains_key(selection_map, identifier)
    THEN Out(Delete, selection_map, c)
    ELSE Out(Keep, insert(selection_map, identifier, None), c)

\* The selection map once a linked field, condition or inline fragment has
\* been traversed with the map `r.map`: that map is the one of its identifier.
with_sub_map(selection_map, identifier, r) ==
    Out(r.result, insert(selection_map, identifier, Some(r.map)), r.cache)

\* The same for a traversal that began with an empty map, which is inserted
\* only if it is not empty afterwards.
with_new_sub_map(selection_map, identifier, r) ==
    Out(r.result,
        IF r.map # EmptyMap
        THEN insert(selection_map, identifier, Some(r.map))
        ELSE selection_map,
        r.cache)

\* A linked field that is always traversed with a map of its own.
transform_selection_linked_field_fresh(selection, identifier, selection_map, c) ==
    with_new_sub_map(selection_map, identifier,
        transform_linked_field(selection, EmptyMap, c))

\* Selection::LinkedField, after the cache look-up
transform_selection_linked_field(selection, identifier, selection_map, c) ==
    IF has_sub_map(selection_map, identifier)
    THEN with_sub_map(selection_map, identifier,
             transform_linked_field(selection, selection_map[identifier].map, c))
    ELSE with_new_sub_map(selection_map, identifier,
             transform_linked_field(selection, EmptyMap, c))

\* A condition that hands its own map down instead of a fork of it.
unforked(identifier, r) ==
    Out(r.result, insert(r.map, identifier, Some(r.map)), r.cache)

transform_selection_condition_unforked(selection, identifier, selection_map, c) ==
    unforked(identifier, transform_condition(selection, selection_map, c))

\* Selection::Condition
transform_selection_condition(selection, identifier, selection_map, c) ==
    IF has_sub_map(selection_map, identifier)
    THEN with_sub_map(selection_map, identifier,
             transform_condition(selection, selection_map[identifier].map, c))
    ELSE \* fork the selection map
         with_sub_map(selection_map, identifier,
             transform_condition(selection, selection_map, c))

\* An inline fragment that hands its own map down instead of a fork of it.
transform_selection_inline_fragment_unforked(selection, identifier, selection_map, c) ==
    unforked(identifier, transform_inline_fragment(selection, selection_map, c))

\* An inline fragment that is traversed with a fork of the map whatever its
\* directives.
transform_selection_inline_fragment_forked(selection, identifier, selection_map, c) ==
    with_sub_map(selection_map, identifier,
        transform_inline_fragment(
            selection,
            IF has_sub_map(selection_map, identifier)
            THEN selection_map[identifier].map ELSE selection_map,
            c))

\* Selection::InlineFragment, after the cache look-up
transform_selection_inline_fragment(selection, identifier, selection_map, c) ==
    IF has_sub_map(selection_map, identifier)
    THEN with_sub_map(selection_map, identifier,
             transform_inline_fragment(selection, selection_map[identifier].map, c))
    ELSE IF \E i \in DOMAIN selection.directives :
                is_relay_custom_inline_fragment_directive(selection.directives[i])
    THEN with_new_sub_map(selection_map, identifier,
             transform_inline_fragment(selection, EmptyMap, c))
    ELSE \* fork for inline fragments for the same reason
         with_sub_map(selection_map, identifier,
             transform_inline_fragment(selection, selection_map, c))

\* A memoization that does not look at the selection map.
should_cache_any_map(selection, selection_map) == strong_count(selection) > 1

\* The memoization around the LinkedField and InlineFragment branches.
should_cache(selection, selection_map) ==
    selection_map = EmptyMap /\ strong_count(selection) > 1

\* An insert of Delete in place of the result.
cache_insert_delete(key, r) ==
    Out(r.result, r.map, (key :> [result |-> Delete, map |-> r.map]) @@ r.cache)

\* self.cache.insert(key, (result.clone(), selection_map.clone()))
cache_insert(key, r) ==
    Out(r.result, r.map, (key :> [result |-> r.result, map |-> r.map]) @@ r.cache)

transform_selection(selection, selection_map, c) ==
    CASE IsLeaf(selection) ->
             transform_leaf(from_selection(schema, selection), selection_map, c)
      [] selection.kind = "Condition" ->
             transform_selection_condition(
                 selection, from_selection(schema, selection), selection_map, c)
      [] should_cache(selection, selection_map) ->
             IF PointerAddress(selection) \in DOMAIN c
             THEN Out(c[PointerAddress(selection)].result,
                      c[PointerAddress(selection)].map, c)
             ELSE cache_insert(
                      PointerAddress(selection),
                      IF selection.kind = "LinkedField"
                      THEN transform_selection_linked_field(
                               selection, from_selection(schema, selection), selection_map, c)
                      ELSE transform_selection_inline_fragment(
                               selection, from_selection(schema, selection), selection_map, c))
      [] selection.kind = "LinkedField" ->
             transform_selection_linked_field(
                 selection, from_selection(schema, selection), selection_map, c)
      [] OTHER ->
             transform_selection_inline_fragment(
                 selection, from_selection(schema, selection), selection_map, c)

\* A node that is kept with the selections left to it, even with none.
collapse_to_empty(node, r) ==
    IF r.result.t = "Keep" THEN Out(Keep, r.map, r.cache)
    ELSE Out(Replace([node EXCEPT !.selections = r.result.v]), r.map, r.cache)

\* The shared body of transform_linked_field, transform_condition and
\* transform_inline_fragment: Replace(selections) with no selection is Delete,
\* otherwise a node with the new selections.
collapse(node, r) ==
    IF r.result.t = "Keep" THEN Out(Keep, r.map, r.cache)
    ELSE IF r.result.v = <<>> THEN Out(Delete, r.map, r.cache)
    ELSE Out(Replace([node EXCEPT !.selections = r.result.v]), r.map, r.cache)

\* Arc::new: the node of a Replace is held by one owner.
with_new_arc(r) ==
    IF r.result.t = "Replace"
    THEN [r EXCEPT !.result = Replace([r.result.v EXCEPT !.ptr = 0])]
    ELSE r

transform_linked_field(field, selection_map, c) ==
    with_new_arc(collapse(field, transform_selections(field.selections, selection_map, c)))

transform_condition(condition, selection_map, c) ==
    collapse(condition, transform_selections(condition.selections, selection_map, c))

transform_inline_fragment(fragment, selection_map, c) ==
    with_new_arc(collapse(fragment, transform_selections(fragment.selections, selection_map, c)))

\* A turn of the loop that does not copy the items before the first change.
transform_selections_step_without_prefix(selections, index, result, has_changes, next_item) ==
    CASE next_item.result.t = "Keep" ->
             transform_selections_loop(
                 selections, index + 1,
                 IF has_changes THEN Append(result, selections[index]) ELSE result,
                 has_changes, next_item.map, next_item.cache)
      [] next_item.result.t = "Delete" ->
             transform_selections_loop(
                 selections, index + 1, result, TRUE, next_item.map, next_item.cache)
      [] OTHER ->
             transform_selections_loop(
                 selections, index + 1, Append(result, next_item.result.v),
                 TRUE, next_item.map, next_item.cache)

\* One turn of the loop of transform_selections: next_item is the result of
\* transform_selection on selections[index].
transform_selections_step(selections, index, result, has_changes, next_item) ==
    CASE next_item.result.t = "Keep" ->
             transform_selections_loop(
                 selections, index + 1,
                 IF has_changes THEN Append(result, selections[index]) ELSE result,
                 has_changes, next_item.map, next_item.cache)
      [] next_item.result.t = "Delete" ->
             transform_selections_loop(
                 selections, index + 1,
                 IF has_changes THEN result ELSE SubSeq(selections, 1, index - 1),
                 TRUE, next_item.map, next_item.cache)
      [] OTHER ->
             transform_selections_loop(
                 selections, index + 1,
                 Append(IF has_changes THEN result ELSE SubSeq(selections, 1, index - 1),
                        next_item.result.v),
                 TRUE, next_item.map, next_item.cache)

\* The loop of transform_selections over the partitioned selections.
transform_selections_loop(selections, index, result, has_changes, selection_map, c) ==
    IF index > Len(selections)
    THEN Out(IF has_changes THEN Replace(result) ELSE Replace(selections), selection_map, c)
    ELSE transform_selections_step(
             selections, index, result, has_changes,
             transform_selection(selections[index], selection_map, c))

transform_selections(selections, selection_map, c) ==
    IF selections = <<>> THEN Out(Keep, selection_map, c)
    ELSE transform_selections_loop(get_partitioned_selections(selections), 1,
                                   <<>>, FALSE, selection_map, c)

\* transform_operation and transform_fragment: a fresh selection map each.
replaced_definition(definition, r) ==
    IF r.result.t = "Keep" THEN Out(Keep, r.map, r.cache)
    ELSE Out(Replace([definition EXCEPT !.selections = r.result.v]), r.map, r.cache)

transform_definition(definition, c) ==
    replaced_definition(definition, transform_selections(definition.selections, EmptyMap, c))

transform_operation(operation, c) == transform_definition(operation, c)

transform_fragment(fragment, c) == transform_definition(fragment, c)

\* What the filter_map of transform_program collects for a definition.
collected(definition, result) ==
    IF result.t = "Replace" THEN result.v ELSE definition

(***************************************************************************)
(* Programs and skip_redundant_nodes as a function of the program: the     *)
(* operations, then the fragments, one after another with one cache.       *)
(***************************************************************************)
OperationDefinition(name, selections) ==
    [kind |-> "Query", name |-> name, selections |-> selections]

FragmentDefinition(name, type_condition, selections) ==
    [name |-> name, type_condition |-> type_condition, directives |-> <<>>,
     selections |-> selections]

Program(ops, frags) == [operations |-> ops, fragments |-> frags]

EmptyCache == <<>>

\* The definitions of `defs` named in `names`, transformed one after another.
RECURSIVE transform_all(_, _, _, _)
transform_all(defs, names, done, c) ==
    IF names = {} THEN [done |-> done, cache |-> c]
    ELSE LET name == CHOOSE n \in names : TRUE
             r == transform_definition(defs[name], c)
         IN  transform_all(defs, names \ {name},
                           (name :> collected(defs[name], r.result)) @@ done,
                           r.cache)

transform_program(p) ==
    LET ops == transform_all(p.operations, DOMAIN p.operations, <<>>, EmptyCache)
        frags == transform_all(p.fragments, DOMAIN p.fragments, <<>>, ops.cache)
    IN  Replace(Program(ops.done, frags.done))

skip_redundant_nodes(p) ==
    LET r == transform_program(p)
    IN  IF r.t = "Replace" THEN r.v ELSE p

(***************************************************************************)
(* The input programs: every forest of selections over a small vocabulary  *)
(* with a bounded number of nodes.  A linked field, inline fragment or     *)
(* condition of an input has at least one selection (the IR builder's      *)
(* invariant).  A forest is a shape (a sequence of trees, a tree being the *)
(* sequence of its children) and a labelling of its nodes in preorder.     *)
(***************************************************************************)
\* The shapes of exactly n nodes, from table[k + 1], the shapes of exactly
\* k nodes, k < n: a first tree of k nodes (its children have k - 1) and the rest.
ShapesOf(n, table) ==
    UNION {{<<t>> \o f : t \in table[k], f \in table[n - k + 1]} : k \in 1..n}

RECURSIVE ShapeTable(_, _)
ShapeTable(table, max) ==
    IF Len(table) > max THEN table
    ELSE ShapeTable(Append(table, ShapesOf(Len(table), table)), max)

\* The shapes of at most max nodes.
Shapes(max) ==
    LET table == ShapeTable(<<{<<>>}>>, max)
    IN  UNION {table[n + 1] : n \in 0..max}

\* For each node of a shape in preorder, whether it is a leaf.
RECURSIVE Preorder(_)
Preorder(shape) ==
    IF shape = <<>> THEN <<>>
    ELSE <<Head(shape) = <<>> >> \o Preorder(Head(shape)) \o Preorder(Tail(shape))

LeafPositions(shape) ==
    LET leaf == Preorder(shape) IN {i \in DOMAIN leaf : leaf[i]}

InnerPositions(shape) ==
    LET leaf == Preorder(shape) IN {i \in DOMAIN leaf : ~leaf[i]}

\* The selections of a shape whose nodes, numbered in preorder from i, are
\* labelled by `labels`; `next` is the number after the last one used.
RECURSIVE Labelled(_, _, _)
Labelled(shape, i, labels) ==
    IF shape = <<>> THEN [selections |-> <<>>, next |-> i]
    ELSE LET below == Labelled(Head(shape), i + 1, labels)
             first == IF Head(shape) = <<>> THEN labels[i]
                      ELSE [labels[i] EXCEPT !.selections = below.selections]
             rest == Labelled(Tail(shape), below.next, labels)
         IN  [selections |-> <<first>> \o rest.selections, next |-> rest.next]

\* The vocabulary.
ScalarX == ScalarField(NoAlias, "x", <<>>)
SpreadF == FragmentSpread("F")
LinkedA == LinkedField(NoAlias, "a", <<>>, <<>>, 0)
InlineA == InlineFragment("A", <<>>, <<>>, 0)
ConditionC == Condition(TRUE, "c", <<>>)
DeferA == InlineFragment("A", <<Directive("defer", <<>>)>>, <<>>, 0)

\* Nodes that several owners hold (Arc::strong_count > 1), at addresses 1 and 2.
SharedLinkedA == LinkedField(NoAlias, "a", <<>>, <<>>, 1)
SharedInlineA == InlineFragment("A", <<>>, <<>>, 2)

\* Scalar fields of one field that vary in alias and arguments.
ScalarXX == ScalarField("x", "x", <<>>)
ScalarYX == ScalarField("y", "x", <<>>)
ScalarX1 == ScalarField(NoAlias, "x", <<Argument("n", 1)>>)

\* A program of one definition, an operation or a fragment.
ProgramOf(definition_kind, selections) ==
    IF definition_kind = "operation"
    THEN Program("Q" :> OperationDefinition("Q", selections), <<>>)
    ELSE Program(<<>>, "F" :> FragmentDefinition("F", "User", selections))

\* `program` is a program of one definition whose selections have at most
\* max nodes, leaves from Leaves and the other nodes from Composites.
InputProgram(max, Leaves, Composites) ==
    \E shape \in Shapes(max) :
    \E leaves \in [LeafPositions(shape) -> Leaves] :
    \E composites \in [InnerPositions(shape) -> Composites] :
    \E definition_kind \in {"operation", "fragment"} :
        program = ProgramOf(definition_kind,
                            Labelled(shape, 1, leaves @@ composites).selections)

\* A program of an operation with the first k selections and a fragment with
\* the others; a definition has at least one selection.
SplitProgram(selections, k) ==
    Program(IF k = 0 THEN <<>>
            ELSE "Q" :> OperationDefinition("Q", SubSeq(selections, 1, k)),
            IF k = Len(selections) THEN <<>>
            ELSE "F" :> FragmentDefinition("F", "User",
                                           SubSeq(selections, k + 1, Len(selections))))

\* The nodes at and below `selections` that have an address.
RECURSIVE SharedNodesOf(_)
SharedNodesOf(selections) ==
    UNION {IF IsLeaf(selections[i]) THEN {}
           ELSE (IF selections[i].kind # "Condition" /\ selections[i].ptr # 0
                 THEN {selections[i]} ELSE {})
                \cup SharedNodesOf(selections[i].selections)
           : i \in DOMAIN selections}

\* One address holds one node.
OneNodePerAddress(selections) ==
    \A n, m \in SharedNodesOf(selections) : n.ptr = m.ptr => n = m

\* A program of two operations and a fragment: the first j selections, the
\* next ones up to the k-th, and the others.
SplitProgramOfThree(selections, j, k) ==
    Program((IF j = 0 THEN <<>>
             ELSE "Q" :> OperationDefinition("Q", SubSeq(selections, 1, j)))
            @@ (IF k = j THEN <<>>
                ELSE "R" :> OperationDefinition("R", SubSeq(selections, j + 1, k))),
            IF k = Len(selections) THEN <<>>
            ELSE "F" :> FragmentDefinition("F", "User",
                                           SubSeq(selections, k + 1, Len(selections))))

\* `program` is a program of two operations and a fragment that share nodes.
InputProgramOfThree(max, Leaves, Composites) ==
    \E shape \in Shapes(max) :
    \E leaves \in [LeafPositions(shape) -> Leaves] :
    \E composites \in [InnerPositions(shape) -> Composites] :
    \E k \in 0 .. Len(shape) : \E j \in 0 .. k :
        /\ OneNodePerAddress(Labelled(shape, 1, leaves @@ composites).selections)
        /\ program = SplitProgramOfThree(
                         Labelled(shape, 1, leaves @@ composites).selections, j, k)

\* `program` is a program of an operation and a fragment that share nodes.
InputProgramOfTwo(max, Leaves, Composites) ==
    \E shape \in Shapes(max) :
    \E leaves \in [LeafPositions(shape) -> Leaves] :
    \E composites \in [InnerPositions(shape) -> Composites] :
    \E k \in 0 .. Len(shape) :
        /\ OneNodePerAddress(Labelled(shape, 1, leaves @@ composites).selections)
        /\ program = SplitProgram(Labelled(shape, 1, leaves @@ composites).selections, k)

(***************************************************************************)
(* The state machine: transform_program.                                   *)
(***************************************************************************)
NoProgram == Program(<<>>, <<>>)

\* No project is built.
NoProjectConfig == [name |-> "", base |-> ""]
NoBuildIRResult == [called |-> FALSE]

\* No artifact is generated.
NoPrograms == [applied |-> FALSE]

NoConfig == [projects |-> <<>>]
NoCompilerState == [source_sets |-> <<>>]

NotCompiling ==
    /\ self_config = NoConfig
    /\ compiler_state = NoCompilerState
    /\ ast_sets = <<>>
    /\ errors = <<>>
    /\ stdout = <<>>
    /\ remaining_projects = {}

NoValidationError == [constructed |-> FALSE]
NoErrorWithSources == [attached |-> FALSE]

NotPrinting ==
    /\ error_call = <<>>
    /\ validation_error = NoValidationError
    /\ error_with_sources = NoErrorWithSources
    /\ printed = None
    /\ displayed = None

NoCall == [function |-> ""]
NotReturned == [returned |-> FALSE]

NotCalling ==
    /\ call = NoCall
    /\ returned = NotReturned

NotGenerating ==
    /\ programs = NoPrograms
    /\ artifacts = <<>>
    /\ persist_calls = <<>>

NotBuilding ==
    /\ project_config = NoProjectConfig
    /\ graphql_asts = <<>>
    /\ build_ir_result = NoBuildIRResult
    /\ NotGenerating

InitOf(Input) ==
    /\ Input
    /\ NotBuilding
    /\ NotCompiling
    /\ NotPrinting
    /\ NotCalling
    /\ cache = EmptyCache
    /\ operations = <<>>
    /\ fragments = <<>>
    /\ next_program = NoProgram
    /\ pc = "transform"
    /\ view = <<>>

\* Spec: every kind of selection.
Init ==
    InitOf(InputProgram(MaxNodes, {ScalarX, SpreadF},
                        {LinkedA, InlineA, ConditionC, DeferA}))

\* One worker of par_operations: transform_operation on one operation.
TransformOperation(name) ==
    /\ pc = "transform"
    /\ name \in DOMAIN program.operations \ DOMAIN operations
    /\ LET r == transform_operation(program.operations[name], cache)
       IN  /\ operations' = (name :> collected(program.operations[name], r.result))
                               @@ operations
           /\ cache' = r.cache
    /\ UNCHANGED <<program, fragments, next_program, pc, view, build_vars, compiler_vars>>

\* One worker of par_fragments, once the operations are collected:
\* transform_fragment on one fragment.
TransformFragment(name) ==
    /\ pc = "transform"
    /\ DOMAIN operations = DOMAIN program.operations
    /\ name \in DOMAIN program.fragments \ DOMAIN fragments
    /\ LET r == transform_fragment(program.fragments[name], cache)
       IN  /\ fragments' = (name :> collected(program.fragments[name], r.result))
                              @@ fragments
           /\ cache' = r.cache
    /\ UNCHANGED <<program, operations, next_program, pc, view, build_vars, compiler_vars>>

\* All fragments are collected: the next program is built and returned.
BuildProgram ==
    /\ pc = "transform"
    /\ DOMAIN operations = DOMAIN program.operations
    /\ DOMAIN fragments = DOMAIN program.fragments
    /\ next_program' = Program(operations, fragments)
    /\ pc' = "done"
    /\ UNCHANGED <<program, cache, operations, fragments, view, build_vars, compiler_vars>>

Next ==
    \/ \E name \in DOMAIN program.operations : TransformOperation(name)
    \/ \E name \in DOMAIN program.fragments : TransformFragment(name)
    \/ BuildProgram

Spec == Init /\ [][Next]_vars

\* SpecConditionals: scalars and spreads under inline fragments and conditions.
InitConditionals ==
    InitOf(InputProgram(MaxNodesConditionals, {ScalarX, SpreadF}, {InlineA, ConditionC}))

SpecConditionals == InitConditionals /\ [][Next]_vars

\* SpecIdentity: scalar fields that vary in alias and arguments.
InitIdentity ==
    InitOf(InputProgram(MaxNodesIdentity,
                        {ScalarX, ScalarXX, ScalarYX, ScalarX1, SpreadF},
                        {LinkedA, InlineA, ConditionC}))

SpecIdentity == InitIdentity /\ [][Next]_vars

\* SpecLinked: one scalar under linked fields, inline fragments and conditions.
InitLinked ==
    InitOf(InputProgram(MaxNodesLinked, {ScalarX}, {LinkedA, InlineA, ConditionC}))

SpecLinked == InitLinked /\ [][Next]_vars

\* SpecShared: an operation and a fragment with nodes that several owners hold.
InitShared ==
    InitOf(InputProgramOfTwo(MaxNodesShared, {ScalarX, SpreadF},
                             {SharedLinkedA, SharedInlineA, ConditionC}))

SpecShared == InitShared /\ [][Next]_vars

(***************************************************************************)
(* The workers of par_operations and par_fragments.  A worker traverses    *)
(* one definition; the others insert into the cache meanwhile.  `view` is  *)
(* the cache when the worker began; its look-ups see that cache, or the    *)
(* cache when it ends, or the part of the latter that holds some of the    *)
(* addresses.  Its inserts replace what the cache holds at its end.        *)
(***************************************************************************)
Restricted(c, addresses) == [key \in addresses |-> c[key]]

CachesBetween(begun, ended) ==
    {begun} \cup {Restricted(ended, addresses) : addresses \in SUBSET DOMAIN ended}

\* self.cache.insert for what the traversal that saw `seen` has added.
Inserted(seen, after, c) ==
    Restricted(after, DOMAIN after \ DOMAIN seen) @@ c

StartOperation(name) ==
    /\ pc = "transform"
    /\ name \in DOMAIN program.operations \ (DOMAIN operations \cup DOMAIN view)
    /\ view' = (name :> cache) @@ view
    /\ UNCHANGED <<program, cache, operations, fragments, next_program, pc, build_vars, compiler_vars>>

FinishOperation(name) ==
    /\ pc = "transform"
    /\ name \in DOMAIN program.operations \cap DOMAIN view
    /\ \E seen \in CachesBetween(view[name], cache) :
           LET r == transform_operation(program.operations[name], seen)
           IN  /\ operations' = (name :> collected(program.operations[name], r.result))
                                   @@ operations
               /\ cache' = Inserted(seen, r.cache, cache)
    /\ view' = Restricted(view, DOMAIN view \ {name})
    /\ UNCHANGED <<program, fragments, next_program, pc, build_vars, compiler_vars>>

StartFragment(name) ==
    /\ pc = "transform"
    /\ DOMAIN operations = DOMAIN program.operations
    /\ name \in DOMAIN program.fragments \ (DOMAIN fragments \cup DOMAIN view)
    /\ view' = (name :> cache) @@ view
    /\ UNCHANGED <<program, cache, operations, fragments, next_program, pc, build_vars, compiler_vars>>

FinishFragment(name) ==
    /\ pc = "transform"
    /\ name \in DOMAIN program.fragments \cap DOMAIN view
    /\ \E seen \in CachesBetween(view[name], cache) :
           LET r == transform_fragment(program.fragments[name], seen)
           IN  /\ fragments' = (name :> collected(program.fragments[name], r.result))
                                  @@ fragments
               /\ cache' = Inserted(seen, r.cache, cache)
    /\ view' = Restricted(view, DOMAIN view \ {name})
    /\ UNCHANGED <<program, operations, next_program, pc, build_vars, compiler_vars>>

NextWorkers ==
    \/ \E name \in DOMAIN program.operations : StartOperation(name)
    \/ \E name \in DOMAIN program.operations : FinishOperation(name)
    \/ \E name \in DOMAIN program.fragments : StartFragment(name)
    \/ \E name \in DOMAIN program.fragments : FinishFragment(name)
    \/ BuildProgram

\* SpecWorkers: two operations and a fragment with nodes that several owners
\* hold, each definition traversed by a worker.
InitWorkers ==
    InitOf(InputProgramOfThree(MaxNodesWorkers, {ScalarX},
                               {SharedLinkedA, SharedInlineA, ConditionC}))

SpecWorkers == InitWorkers /\ [][NextWorkers]_vars

(***************************************************************************)
(* What a program fetches: its scalar fields and fragment spreads, each    *)
(* with the chain of the selections that enclose it.                       *)
(***************************************************************************)
is_custom_inline_fragment(selection) ==
    /\ selection.kind = "InlineFragment"
    /\ \E i \in DOMAIN selection.directives :
           is_relay_custom_inline_fragment_directive(selection.directives[i])

\* A linked field or a custom inline fragment opens a scope of its own; the
\* other inline fragments and the conditions only wrap their selections.
IsScope(selection) ==
    selection.kind = "LinkedField" \/ is_custom_inline_fragment(selection)

IsWrapper(selection) == IsComposite(selection) /\ ~IsScope(selection)

Link(selection) ==
    [id |-> from_selection(schema, selection), scope |-> IsScope(selection)]

\* The leaves below `selections`, which `chain` encloses.
RECURSIVE LeavesOf(_, _)
LeavesOf(selections, chain) ==
    UNION {IF IsLeaf(selections[i])
           THEN {[chain |-> chain, id |-> from_selection(schema, selections[i])]}
           ELSE LeavesOf(selections[i].selections, Append(chain, Link(selections[i])))
           : i \in DOMAIN selections}

\* `kept` is `removed` without some of its wrappers: the same scopes in the
\* same order, and no wrapper that `removed` has not at that place.
RECURSIVE SubChain(_, _)
SubChain(kept, removed) ==
    IF removed = <<>> THEN kept = <<>>
    ELSE \/ kept # <<>> /\ Head(kept) = Head(removed)
                        /\ SubChain(Tail(kept), Tail(removed))
         \/ ~Head(removed).scope /\ SubChain(kept, Tail(removed))

DefinitionKinds == {"operations", "fragments"}

Done == pc = "done"

RECURSIVE ListsOf(_)
ListsOf(selections) ==
    {selections} \cup
    UNION {IF IsLeaf(selections[i]) THEN {} ELSE ListsOf(selections[i].selections)
           : i \in DOMAIN selections}

ListsOfProgram(p) ==
    UNION {UNION {ListsOf(p[k][name].selections) : name \in DOMAIN p[k]}
           : k \in DefinitionKinds}

Id(selection) == from_selection(schema, selection)

\* The selections of a list whose identifier no earlier one of the list has.
RECURSIVE FirstOfEachIdentifier(_, _)
FirstOfEachIdentifier(selections, seen) ==
    IF selections = <<>> THEN <<>>
    ELSE IF Id(Head(selections)) \in seen
         THEN FirstOfEachIdentifier(Tail(selections), seen)
         ELSE <<Head(selections)>> \o
              FirstOfEachIdentifier(Tail(selections), seen \cup {Id(Head(selections))})

OfKind(selections, kind) == SelectSeq(selections, LAMBDA sel : sel.kind = kind)

\* C2: no selection list of the output holds two scalar fields or two fragment
\* spreads of one identifier, and of the scalar fields (fragment spreads) of one
\* identifier in the selection list of a definition the first one is kept.
C2_NoDuplicateLeaves ==
    Done =>
        /\ \A list \in ListsOfProgram(next_program) :
               \A i, j \in DOMAIN list :
                   i < j /\ IsLeaf(list[i]) /\ IsLeaf(list[j])
                       => Id(list[i]) # Id(list[j])
        /\ \A k \in DefinitionKinds : \A name \in DOMAIN program[k] :
               \A kind \in {"ScalarField", "FragmentSpread"} :
                   OfKind(next_program[k][name].selections, kind) =
                       FirstOfEachIdentifier(OfKind(program[k][name].selections, kind), {})

\* `x: x  x  ...F  ...F` became `x: x  ...F`.
C2_Witness ==
    /\ Done
    /\ \E k \in DefinitionKinds : \E name \in DOMAIN program[k] :
           /\ program[k][name].selections = <<ScalarXX, ScalarX, SpreadF, SpreadF>>
           /\ next_program[k][name].selections = <<ScalarXX, SpreadF>>

\* The composite selections at and below `selections`.
RECURSIVE CompositesOf(_)
CompositesOf(selections) ==
    UNION {IF IsLeaf(selections[i]) THEN {}
           ELSE {selections[i]} \cup CompositesOf(selections[i].selections)
           : i \in DOMAIN selections}

CompositesOfProgram(p) ==
    UNION {UNION {CompositesOf(p[k][name].selections) : name \in DOMAIN p[k]}
           : k \in DefinitionKinds}

\* The leaf `inner` lies below the list that holds the leaf `outer`, and only
\* non-custom inline fragments and conditions are between that list and it.
UnderWrappersOnly(outer, inner) ==
    /\ Len(outer.chain) < Len(inner.chain)
    /\ SubSeq(inner.chain, 1, Len(outer.chain)) = outer.chain
    /\ \A i \in Len(outer.chain) + 1 .. Len(inner.chain) : ~inner.chain[i].scope

\* No list at or below `selections` holds two linked fields, inline fragments
\* or conditions of one identifier: the identifiers of the enclosing selections
\* then name one place.
DistinctPaths(selections) ==
    \A list \in ListsOf(selections) :
        \A i, j \in DOMAIN list :
            i < j /\ IsComposite(list[i]) /\ IsComposite(list[j])
                => Id(list[i]) # Id(list[j])

\* C3: a scalar field below non-custom inline fragments and conditions only is
\* deleted when a list that encloses it on that path holds a scalar field of
\* the same identifier, and the output holds no inline fragment or condition
\* without selections. (Stated for the definitions whose paths are distinct.)
C3_NestedScalarDeleted ==
    Done =>
        /\ \A k \in DefinitionKinds : \A name \in DOMAIN program[k] :
               DistinctPaths(program[k][name].selections) =>
                   \A outer, inner \in LeavesOf(program[k][name].selections, <<>>) :
                       /\ inner.id.kind = "ScalarField"
                       /\ outer.id = inner.id
                       /\ UnderWrappersOnly(outer, inner)
                       => inner \notin LeavesOf(next_program[k][name].selections, <<>>)
        /\ \A node \in CompositesOfProgram(next_program) :
               IsWrapper(node) => node.selections # <<>>
\* The leaf `inner` is held by a linked field inside a non-custom inline
\* fragment, and the leaf `outer` by a linked field of the same identifier
\* that is a sibling of that inline fragment.
InnerAndOuter(outer, inner) ==
    /\ outer.chain # <<>>
    /\ Len(inner.chain) = Len(outer.chain) + 1
    /\ SubSeq(inner.chain, 1, Len(outer.chain) - 1) =
           SubSeq(outer.chain, 1, Len(outer.chain) - 1)
    /\ inner.chain[Len(inner.chain)] = outer.chain[Len(outer.chain)]
    /\ outer.chain[Len(outer.chain)].id.kind = "LinkedField"
    /\ inner.chain[Len(outer.chain)].id.kind = "InlineFragment"
    /\ ~inner.chain[Len(outer.chain)].scope

\* The same, where a leaf below the outer linked field is known, not one that
\* it holds itself.
InnerAndBelowOuter(below, inner) ==
    /\ below.chain # <<>>
    /\ InnerAndOuter([below EXCEPT !.chain = SubSeq(below.chain, 1, Len(inner.chain) - 1)],
                     inner)

\* C4: a linked field inside a non-custom inline fragment loses the scalar
\* fields and fragment spreads that a sibling of the inline fragment, a linked
\* field of the same identifier, holds; where the two are in the selections of
\* a definition it keeps the others and the sibling keeps its own. (Stated for
\* the definitions whose paths are distinct.)
C4_InnerLinkedFieldLosesOuter ==
    Done =>
        \A k \in DefinitionKinds : \A name \in DOMAIN program[k] :
            DistinctPaths(program[k][name].selections) =>
                LET leaves == LeavesOf(program[k][name].selections, <<>>)
                    out == LeavesOf(next_program[k][name].selections, <<>>)
                IN  \A inner \in leaves :
                        /\ \A outer \in leaves :
                               InnerAndOuter(outer, inner) /\ outer.id = inner.id
                                   => inner \notin out
                        /\ \A below \in leaves :
                               /\ Len(inner.chain) = 2
                               /\ InnerAndBelowOuter(below, inner)
                               => /\ Len(below.chain) = 1 => below \in out
                                  /\ (\A outer \in leaves :
                                          InnerAndOuter(outer, inner) => outer.id # inner.id)
                                     => inner \in out
\* The scalar fields and fragment spreads that a selection holds itself.
DirectLeaves(selection) ==
    {Id(selection.selections[i]) :
        i \in {n \in DOMAIN selection.selections : IsLeaf(selection.selections[n])}}

\* C5 as stated: no selection list of the output holds two selections of one
\* identifier, of whatever kind.
C5_NoTwoOfOneIdentifier ==
    Done =>
        \A list \in ListsOfProgram(next_program) :
            \A i, j \in DOMAIN list : i < j => Id(list[i]) # Id(list[j])

\* C5, amended: no selection list of the output holds two scalar fields or two
\* fragment spreads of one identifier; it may hold two linked fields, inline
\* fragments or conditions of one identifier, and then the later one holds no
\* scalar field or fragment spread that the earlier one holds.
C5_NoTwoLeavesAndDisjointComposites ==
    Done =>
        \A list \in ListsOfProgram(next_program) :
            \A i, j \in DOMAIN list :
                i < j /\ Id(list[i]) = Id(list[j])
                    => /\ IsComposite(list[i])
                       /\ DirectLeaves(list[i]) \cap DirectLeaves(list[j]) = {}

\* Two linked fields of one identifier are in one list of the output, and a
\* scalar field of the second one was deleted.
C5_Witness ==
    /\ Done
    /\ \E k \in DefinitionKinds : \E name \in DOMAIN program[k] :
           /\ program[k][name].selections =
                  <<[LinkedA EXCEPT !.selections = <<ScalarX>>],
                    [LinkedA EXCEPT !.selections = <<ScalarX, SpreadF>>]>>
           /\ next_program[k][name].selections =
                  <<[LinkedA EXCEPT !.selections = <<ScalarX>>],
                    [LinkedA EXCEPT !.selections = <<SpreadF>>]>>
\* C6: skip_redundant_nodes is idempotent: applied to its output it returns
\* the same definitions with the same selections in the same order.
C6_Idempotent ==
    Done => skip_redundant_nodes(next_program) = next_program

\* The leaf `inner` is held by a non-custom inline fragment or a condition
\* that is in the list that holds the leaf `member`.
DirectlyInsideSibling(member, inner) ==
    /\ Len(inner.chain) = Len(member.chain) + 1
    /\ UnderWrappersOnly(member, inner)

\* C7: a scalar field or fragment spread that a non-custom inline fragment or
\* a condition of a list holds is deleted when the list itself holds a scalar
\* field or fragment spread of the same identifier, before it or after it.
\* (Stated for the definitions whose paths are distinct.)
C7_DeletedWhateverTheOrder ==
    Done =>
        \A k \in DefinitionKinds : \A name \in DOMAIN program[k] :
            DistinctPaths(program[k][name].selections) =>
                \A member, inner \in LeavesOf(program[k][name].selections, <<>>) :
                    member.id = inner.id /\ DirectlyInsideSibling(member, inner)
                        => inner \notin LeavesOf(next_program[k][name].selections, <<>>)
\* Two scalar fields of the selections of a definition are both in the output.
BothRetained(k, name, first, second) ==
    \E m, n \in DOMAIN next_program[k][name].selections :
        /\ next_program[k][name].selections[m] = first
        /\ next_program[k][name].selections[n] = second

\* C8 as stated: two scalar fields of the selections of a definition that
\* differ in alias, or have the same alias and different arguments, have
\* different identifiers and are both retained.
C8_DifferentAliasRetained ==
    Done =>
        \A k \in DefinitionKinds : \A name \in DOMAIN program[k] :
            LET fields == OfKind(program[k][name].selections, "ScalarField")
            IN  \A i, j \in DOMAIN fields :
                    \/ fields[i].alias # fields[j].alias
                    \/ fields[i].arguments # fields[j].arguments
                    => /\ Id(fields[i]) # Id(fields[j])
                       /\ BothRetained(k, name, fields[i], fields[j])

\* No earlier one of the fields has the identifier of the i-th.
IsFirstOfIdentifier(fields, i) ==
    \A j \in 1 .. i - 1 : Id(fields[j]) # Id(fields[i])

\* C8, amended: two scalar fields of the selections of a definition that
\* differ in response key (the alias, or the name of a field without alias),
\* or have the same response key and different arguments, have different
\* identifiers, and neither is deleted on account of the other: a scalar field
\* is deleted only if an earlier one of the selections has its identifier.
C8_DifferentResponseKeyRetained ==
    Done =>
        \A k \in DefinitionKinds : \A name \in DOMAIN program[k] :
            LET fields == OfKind(program[k][name].selections, "ScalarField")
            IN  /\ \A i, j \in DOMAIN fields :
                       \/ alias_or_name(fields[i]) # alias_or_name(fields[j])
                       \/ canonicalized_arguments(fields[i].arguments) #
                              canonicalized_arguments(fields[j].arguments)
                       => /\ Id(fields[i]) # Id(fields[j])
                          /\ IsFirstOfIdentifier(fields, i) /\ IsFirstOfIdentifier(fields, j)
                                 => BothRetained(k, name, fields[i], fields[j])
                /\ \A i \in DOMAIN fields :
                       ~BothRetained(k, name, fields[i], fields[i])
                           => ~IsFirstOfIdentifier(fields, i)

\* `x  y: x  x(n: 1)  x: x` became `x  y: x  x(n: 1)`.
C8_Witness ==
    /\ Done
    /\ \E k \in DefinitionKinds : \E name \in DOMAIN program[k] :
           /\ program[k][name].selections = <<ScalarX, ScalarYX, ScalarX1, ScalarXX>>
           /\ next_program[k][name].selections = <<ScalarX, ScalarYX, ScalarX1>>

\* transform_linked_field, transform_condition or transform_inline_fragment,
\* as the kind of the node has it.
transform_node(node, selection_map, c) ==
    CASE node.kind = "LinkedField" -> transform_linked_field(node, selection_map, c)
      [] node.kind = "Condition" -> transform_condition(node, selection_map, c)
      [] OTHER -> transform_inline_fragment(node, selection_map, c)

\* A map that holds the scalar field `x` and the fragment spread `...F`.
FullMap == insert(insert(EmptyMap, Id(ScalarX), None), Id(SpreadF), None)

\* `below` is what transform_selections returned for the selections of a node
\* and `r` what transform_node returned for the node.
Cascades(below, r) ==
    /\ below.result.t = "Replace" /\ below.result.v = <<>> => r.result = Delete
    /\ r.result.t = "Replace" => r.result.v.selections # <<>>

\* C9: a linked field, inline fragment or condition all of whose selections
\* are deleted is deleted itself (transform_* returns Delete), and the output
\* holds no linked field, inline fragment or condition without selections.
C9_DeletionCascades ==
    Done =>
        /\ \A node \in CompositesOfProgram(next_program) : node.selections # <<>>
        /\ \A node \in CompositesOfProgram(program) :
               \A selection_map \in {EmptyMap, FullMap} :
                   Cascades(transform_selections(node.selections, selection_map, cache),
                            transform_node(node, selection_map, cache))

\* `x  @include(if: $c) { ... on A { x } }` became `x`.
C9_Witness ==
    /\ Done
    /\ \E k \in DefinitionKinds : \E name \in DOMAIN program[k] :
           /\ program[k][name].selections =
                  <<ScalarX,
                    [ConditionC EXCEPT !.selections =
                        <<[InlineA EXCEPT !.selections = <<ScalarX>>]>>]>>
           /\ next_program[k][name].selections = <<ScalarX>>

\* The selection map with which the i-th of the partitioned selections is
\* reached, in a list that is entered with an empty map.
MapBefore(selections, i) ==
    transform_selections(SubSeq(get_partitioned_selections(selections), 1, i - 1),
                         EmptyMap, EmptyCache).map

\* The map of `r` is `before` with one more key, `identifier`.
FrameOf(before, identifier, r) ==
    /\ DOMAIN r.map = DOMAIN before \cup {identifier}
    /\ \A key \in DOMAIN before : r.map[key] = before[key]

\* C10: a non-custom inline fragment or a condition whose identifier is not
\* in the selection map changes the map by its own key only; so in the
\* selections of a definition, a scalar field or fragment spread that such a
\* selection holds, and the definition does not, is kept.
C10_ForkLeavesTheMap ==
    Done =>
        /\ \A selections \in ListsOfProgram(program) :
               \A i \in DOMAIN selections :
                   /\ IsWrapper(get_partitioned_selections(selections)[i])
                   /\ Id(get_partitioned_selections(selections)[i])
                          \notin DOMAIN MapBefore(selections, i)
                   => FrameOf(MapBefore(selections, i),
                              Id(get_partitioned_selections(selections)[i]),
                              transform_selection(
                                  get_partitioned_selections(selections)[i],
                                  MapBefore(selections, i), EmptyCache))
        /\ \A k \in DefinitionKinds : \A name \in DOMAIN program[k] :
               LET leaves == LeavesOf(program[k][name].selections, <<>>)
               IN  \A inner \in leaves :
                       /\ Len(inner.chain) = 1
                       /\ ~inner.chain[1].scope
                       /\ \A member \in leaves :
                              member.chain = <<>> => member.id # inner.id
                       => inner \in LeavesOf(next_program[k][name].selections, <<>>)

\* `... on A { x }  @include(if: $c) { x }` is kept as it is.
C10_Witness ==
    /\ Done
    /\ \E k \in DefinitionKinds : \E name \in DOMAIN program[k] :
           /\ program[k][name].selections =
                  <<[InlineA EXCEPT !.selections = <<ScalarX>>],
                    [ConditionC EXCEPT !.selections = <<ScalarX>>]>>
           /\ next_program[k][name].selections = program[k][name].selections
\* `r` is what transform_selection returned for a custom inline fragment
\* reached with the map `before`, and `alone` what transform_inline_fragment
\* returns for it with an empty map.
IndependentScope(before, identifier, r, alone) ==
    /\ r.result = alone.result
    /\ r.map = IF alone.map # EmptyMap
               THEN insert(before, identifier, Some(alone.map))
               ELSE before

\* C11: an inline fragment with a custom directive whose identifier is not in
\* the selection map is traversed with an empty map: the result is the one of
\* the fragment alone, its map is stored under its key if it is not empty and
\* the selection map is left as it was otherwise; so in the selections of a
\* definition, what the first such fragment of an identifier holds is kept.
C11_CustomInlineFragmentIsAScope ==
    Done =>
        /\ \A selections \in ListsOfProgram(program) :
               \A i \in DOMAIN selections :
                   /\ is_custom_inline_fragment(get_partitioned_selections(selections)[i])
                   /\ Id(get_partitioned_selections(selections)[i])
                          \notin DOMAIN MapBefore(selections, i)
                   => /\ IndependentScope(
                             MapBefore(selections, i),
                             Id(get_partitioned_selections(selections)[i]),
                             transform_selection(
                                 get_partitioned_selections(selections)[i],
                                 MapBefore(selections, i), EmptyCache),
                             transform_inline_fragment(
                                 get_partitioned_selections(selections)[i],
                                 EmptyMap, EmptyCache))
                      /\ transform_selection(DeferA, MapBefore(selections, i), EmptyCache).map
                             = MapBefore(selections, i)
        /\ \A k \in DefinitionKinds : \A name \in DOMAIN program[k] :
               DistinctPaths(program[k][name].selections) =>
                   \A inner \in LeavesOf(program[k][name].selections, <<>>) :
                       /\ Len(inner.chain) = 1
                       /\ inner.chain[1].scope
                       /\ inner.chain[1].id.kind = "InlineFragment"
                       => inner \in LeavesOf(next_program[k][name].selections, <<>>)

\* `x  ... on A @defer { x }` is kept as it is.
C11_Witness ==
    /\ Done
    /\ \E k \in DefinitionKinds : \E name \in DOMAIN program[k] :
           /\ program[k][name].selections =
                  <<ScalarX, [DeferA EXCEPT !.selections = <<ScalarX>>]>>
           /\ next_program[k][name].selections = program[k][name].selections
\* The selections with every node held by one owner: should_cache is false
\* for each of them, so the cache is neither read nor written.
RECURSIVE Unshared(_)
Unshared(selections) ==
    [i \in DOMAIN selections |->
        IF IsLeaf(selections[i]) THEN selections[i]
        ELSE IF selections[i].kind = "Condition"
        THEN [selections[i] EXCEPT !.selections = Unshared(selections[i].selections)]
        ELSE [selections[i] EXCEPT !.selections = Unshared(selections[i].selections),
                                   !.ptr = 0]]

UnsharedDefinitions(defs) ==
    [name \in DOMAIN defs |->
        [defs[name] EXCEPT !.selections = Unshared(defs[name].selections)]]

UnsharedProgram(p) ==
    Program(UnsharedDefinitions(p.operations), UnsharedDefinitions(p.fragments))

\* A Transformed value with every node held by one owner.
UnsharedResult(result) ==
    IF result.t = "Replace" THEN Replace(Unshared(<<result.v>>)[1]) ELSE result

SharedNodesOfProgram(p) ==
    UNION {UNION {SharedNodesOf(p[k][name].selections) : name \in DOMAIN p[k]}
           : k \in DefinitionKinds}

\* The cache entry `cached` is what the traversal `r` of the node without
\* cache returned: the same Transformed value and the same selection map.
SameAsUncached(cached, r) ==
    /\ UnsharedResult(cached.result) = UnsharedResult(r.result)
    /\ cached.map = r.map

\* C12: the output is the one of the algorithm without the cache (the same
\* program with no node shared, node addresses apart), and every entry of the
\* cache holds the Transformed value and the selection map that a traversal
\* of its node with an empty map and without cache returns.
C12_MemoizationChangesNothing ==
    /\ Done => UnsharedProgram(next_program) = skip_redundant_nodes(UnsharedProgram(program))
    /\ \A node \in SharedNodesOfProgram(program) :
           PointerAddress(node) \in DOMAIN cache
               => SameAsUncached(cache[PointerAddress(node)],
                                 transform_selection(Unshared(<<node>>)[1], EmptyMap, EmptyCache))

\* The fragment has found in the cache what the operation had put there for
\* the linked field `a { x }` that both hold.
C12_Witness ==
    /\ Done
    /\ DOMAIN program.operations = {"Q"}
    /\ DOMAIN program.fragments = {"F"}
    /\ program.operations["Q"].selections =
           <<[SharedLinkedA EXCEPT !.selections = <<ScalarX>>]>>
    /\ program.fragments["F"].selections = program.operations["Q"].selections
    /\ next_program.fragments["F"].selections =
           <<[LinkedA EXCEPT !.selections = <<ScalarX>>]>>
    /\ PointerAddress(SharedLinkedA) \in DOMAIN cache
\* What cache.insert stores for the traversal `r` of a node.
EntryOf(r) == [result |-> r.result, map |-> r.map]

\* C13: however the workers interleave, the output is the one of the
\* definitions transformed one after another, and the cache holds for an
\* address, at any moment, the (result, map) of the traversal of its node with
\* an empty map and an empty cache: two inserts for one address insert equal
\* values.
C13_AnyInterleaving ==
    /\ Done => next_program = skip_redundant_nodes(program)
    /\ \A node \in SharedNodesOfProgram(program) :
           PointerAddress(node) \in DOMAIN cache
               => cache[PointerAddress(node)] =
                      EntryOf(transform_selection(node, EmptyMap, EmptyCache))

\* The worker of R began with an empty cache, and the worker of Q has since
\* inserted the linked field `a { x }` that both operations hold.
C13_Witness ==
    /\ DOMAIN program.operations = {"Q", "R"}
    /\ program.operations["Q"].selections =
           <<[SharedLinkedA EXCEPT !.selections = <<ScalarX>>]>>
    /\ program.operations["R"].selections = program.operations["Q"].selections
    /\ DOMAIN operations = {"Q"}
    /\ DOMAIN view = {"R"}
    /\ view["R"] = EmptyCache
    /\ PointerAddress(SharedLinkedA) \in DOMAIN cache
\* C14: a linked field or inline fragment that several owners hold and that
\* the output holds with the same selections is in the output as the same
\* reference (at its address), not as a new node that is equal by value.
C14_UnchangedNodeIsTheSameReference ==
    Done =>
        \A node \in SharedNodesOfProgram(program) :
            \A kept \in CompositesOfProgram(next_program) :
                /\ kept.kind = node.kind
                /\ [kept EXCEPT !.ptr = PointerAddress(node)] = node
                => PointerAddress(kept) = PointerAddress(node)


(***************************************************************************)
(* generate_data_driven_dependency_metadata: the @module inline fragments  *)
(* of a fragment are recorded, by module id and type name, in one          *)
(* __dataDrivenDependencyMetadata directive on the fragment.               *)
(***************************************************************************)
DATA_DRIVEN_DEPENDENCY_METADATA_KEY == "__dataDrivenDependencyMetadata"

\* MATCH_CONSTANTS
custom_module_directive_name == "module"
js_field_id_arg == "js_field_id"
js_field_module_arg == "js_field_module"

\* TypeReference: a named type or a list of it.
Named(type) == [named |-> type, list |-> FALSE]
ListOf(type) == [named |-> type, list |-> TRUE]
is_list(type) == type.list

\* The linked fields of the schema whose type is a list.
ListFields == {"b"}

\* schema.field(definition).type_
field_type(name) ==
    IF name \in ListFields THEN ListOf(schema[name]) ELSE Named(schema[name])

\* schema.get_type_string
get_type_string(type) ==
    IF is_list(type) THEN "[" \o type.named \o "]" ELSE type.named

\* Option<TypeCondition>::None of an inline fragment.
NoType == ""

\* directives.named(name): the first directive of that name.
RECURSIVE named(_, _)
named(directives, name) ==
    IF directives = <<>> THEN None
    ELSE IF Head(directives).name = name
         THEN [some |-> TRUE, directive |-> Head(directives)]
         ELSE named(Tail(directives), name)

\* arguments.named(name) of a directive, as the set of its values.
argument_values(directive, name) ==
    {directive.arguments[i].value :
        i \in {j \in DOMAIN directive.arguments : directive.arguments[j].name = name}}

\* get_argument_value, where the argument is present (`unwrap`).
get_argument_value(directive, name) ==
    CHOOSE value \in argument_values(directive, name) : TRUE

\* get_normalization_operation_name
get_normalization_operation_name(name) == name \o "$normalization"

get_fragment_filename(fragment_name) ==
    get_normalization_operation_name(fragment_name) \o ".graphql"

Branch(component, fragment) == [component |-> component, fragment |-> fragment]

ModuleEntry(id, branches, plural) ==
    [id |-> id, branches |-> branches, plural |-> plural]

ProcessingItem(plural, parent_type, selections) ==
    [plural |-> plural, parent_type |-> parent_type, selections |-> selections]

\* The traversal: the stack of items to process, the entries recorded and
\* whether it has panicked.
Traversal(processing_queue, module_entries, panicked) ==
    [processing_queue |-> processing_queue, module_entries |-> module_entries,
     panicked |-> panicked]

\* `inline_fragment.selections.iter().find(FragmentSpread)`
find_fragment_spread(selections) ==
    SelectSeq(selections, LAMBDA item : item.kind = "FragmentSpread")

\* `module_entries.entry(id).and_modify(..).or_insert(..)`
entry_and_modify_or_insert(module_entries, id, type_name, branch, plural) ==
    IF id \in DOMAIN module_entries
    THEN [module_entries EXCEPT
              ![id].branches = (type_name :> branch) @@ module_entries[id].branches]
    ELSE (id :> ModuleEntry(id, type_name :> branch, plural)) @@ module_entries

\* The parent type of the selections of an inline fragment.
inline_fragment_parent_type(processing_item, inline_fragment) ==
    IF inline_fragment.type_condition # NoType
    THEN Named(inline_fragment.type_condition)
    ELSE processing_item.parent_type

\* An inline fragment with the module directive: its branch is recorded,
\* or the traversal panics where a value it expects is missing.
module_branch_recorded(processing_item, inline_fragment, module_directive, t) ==
    IF \/ argument_values(module_directive, js_field_id_arg) = {}
       \/ argument_values(module_directive, js_field_module_arg) = {}
       \/ find_fragment_spread(inline_fragment.selections) = <<>>
    THEN Traversal(t.processing_queue, t.module_entries, TRUE)
    ELSE Traversal(
             t.processing_queue,
             entry_and_modify_or_insert(
                 t.module_entries,
                 get_argument_value(module_directive, js_field_id_arg),
                 get_type_string(inline_fragment_parent_type(processing_item,
                                                             inline_fragment)),
                 Branch(get_argument_value(module_directive, js_field_module_arg),
                        get_fragment_filename(
                            find_fragment_spread(inline_fragment.selections)[1].fragment)),
                 processing_item.plural),
             FALSE)

push(t, processing_item) ==
    Traversal(Append(t.processing_queue, processing_item), t.module_entries, t.panicked)

\* One selection of the item that is processed.
visit_selection(processing_item, selection, t) ==
    CASE selection.kind \in {"ScalarField", "FragmentSpread"} -> t
      [] selection.kind = "LinkedField" ->
             push(t, ProcessingItem(is_list(field_type(selection.name)),
                                    field_type(selection.name),
                                    selection.selections))
      [] selection.kind = "InlineFragment" ->
             push(IF named(selection.directives, custom_module_directive_name) = None
                  THEN t
                  ELSE module_branch_recorded(
                           processing_item, selection,
                           named(selection.directives,
                                 custom_module_directive_name).directive,
                           t),
                  ProcessingItem(processing_item.plural,
                                 inline_fragment_parent_type(processing_item, selection),
                                 selection.selections))
      [] selection.kind = "Condition" ->
             push(t, ProcessingItem(processing_item.plural,
                                    processing_item.parent_type,
                                    selection.selections))

\* `for selection in processing_item.selections`; a panic ends it.
RECURSIVE visit_selections(_, _, _)
visit_selections(processing_item, i, t) ==
    IF t.panicked \/ i > Len(processing_item.selections) THEN t
    ELSE visit_selections(processing_item, i + 1,
                          visit_selection(processing_item,
                                          processing_item.selections[i], t))

\* `processing_queue.pop()`
popped(t) ==
    Traversal(SubSeq(t.processing_queue, 1, Len(t.processing_queue) - 1),
              t.module_entries, t.panicked)

\* `while !processing_queue.is_empty()`
RECURSIVE process(_)
process(t) ==
    IF t.panicked \/ t.processing_queue = <<>> THEN t
    ELSE process(visit_selections(t.processing_queue[Len(t.processing_queue)],
                                  1, popped(t)))

\* The sequences that hold every element of S once.
Orders(S) ==
    {order \in [1 .. Cardinality(S) -> S] :
        \A i, j \in DOMAIN order : order[i] = order[j] => i = j}

\* The order in which a hash map yields its keys: the one of its hasher.
iter(keys, hasher) == SelectSeq(hasher, LAMBDA key : key \in keys)

\* The order (Ord) of the interned keys and the one of the strings of type
\* names (by bytes: an upper-case letter is before `[`).
StringKeys == <<"m1", "m2">>
TypeNames == <<"A", "User", "[User]">>

RankIn(order, key) == CHOOSE i \in DOMAIN order : order[i] = key
string_key_cmp_less(a, b) == RankIn(StringKeys, a) < RankIn(StringKeys, b)
string_cmp_less(a, b) == RankIn(TypeNames, a) < RankIn(TypeNames, b)

\* The hasher of the maps of module entries and of branches.
Hashers ==
    {[keys |-> keys, names |-> names] :
        keys \in Orders({StringKeys[i] : i \in DOMAIN StringKeys}),
        names \in Orders({TypeNames[i] : i \in DOMAIN TypeNames})}

\* `serialized_branches.sort_unstable_by(|a, b| a.0.cmp(&b.0))`, the type
\* names being distinct: the k-th is the one that k - 1 of them are less than.
serialized_branches_sorted(serialized_branches) ==
    [k \in DOMAIN serialized_branches |->
         serialized_branches[
             CHOOSE i \in DOMAIN serialized_branches :
                 Cardinality({j \in DOMAIN serialized_branches :
                                  string_cmp_less(serialized_branches[j][1],
                                                  serialized_branches[i][1])})
                     = k - 1]]

RECURSIVE join(_, _)
join(strings, separator) ==
    IF strings = <<>> THEN ""
    ELSE IF Len(strings) = 1 THEN strings[1]
         ELSE strings[1] \o separator \o join(Tail(strings), separator)

bool_string(b) == IF b THEN "true" ELSE "false"

\* One serialized branch: its type name and its text.
serialized_branch(id, branch) ==
    <<id, "\"" \o id \o "\":{\"component\":\"" \o branch.component
           \o "\",\"fragment\":\"" \o branch.fragment \o "\"}">>

\* `From<ModuleEntry> for StringKey`
module_entry_string(module_entry, hasher) ==
    LET order == iter(DOMAIN module_entry.branches, hasher.names)
        serialized_branches ==
            serialized_branches_sorted(
                [i \in DOMAIN order |->
                     serialized_branch(order[i], module_entry.branches[order[i]])])
    IN  "{\"branches\":{"
            \o join([i \in DOMAIN serialized_branches |-> serialized_branches[i][2]],
                    ",")
            \o "},\"plural\":" \o bool_string(module_entry.plural) \o "}"

\* The arguments as they are pushed.
arguments_as_pushed(arguments) == arguments

\* `arguments.sort_unstable_by(|a, b| a.name.item.cmp(&b.name.item))`, the
\* names being distinct.
arguments_sorted(arguments) ==
    [k \in DOMAIN arguments |->
         arguments[CHOOSE i \in DOMAIN arguments :
                       Cardinality({j \in DOMAIN arguments :
                                        string_key_cmp_less(arguments[j].name,
                                                            arguments[i].name)})
                           = k - 1]]

create_metadata_directive(module_entries, hasher) ==
    LET order == iter(DOMAIN module_entries, hasher.keys)
    IN  Directive(DATA_DRIVEN_DEPENDENCY_METADATA_KEY,
                  arguments_sorted(
                      [i \in DOMAIN order |->
                           Argument(order[i],
                                    module_entry_string(module_entries[order[i]],
                                                        hasher))]))

\* The end of transform_fragment: the result of the traversal.
metadata_of_traversal(fragment, t, hasher) ==
    IF t.panicked THEN [panicked |-> TRUE, result |-> Keep]
    ELSE IF t.module_entries # <<>>
         THEN [panicked |-> FALSE,
               result |-> Replace([fragment EXCEPT !.directives =
                              <<create_metadata_directive(t.module_entries, hasher)>>])]
         ELSE [panicked |-> FALSE, result |-> Keep]

\* GenerateDataDrivenDependencyMetadata::transform_fragment
metadata_transform_fragment(fragment, hasher) ==
    metadata_of_traversal(
        fragment,
        process(Traversal(<<ProcessingItem(FALSE, Named(fragment.type_condition),
                                           fragment.selections)>>,
                          <<>>, FALSE)),
        hasher)

\* Transformer::transform_operation, which the transform does not override:
\* its selections are visited and all are kept.
metadata_transform_operation(operation) == [panicked |-> FALSE, result |-> Keep]

\* The vocabulary: inline fragments with the module directive, a linked field
\* of a list type, two fragment spreads.
ModuleFragment(type_condition, id, component) ==
    InlineFragment(type_condition,
                   <<Directive(custom_module_directive_name,
                               <<Argument(js_field_id_arg, id),
                                 Argument(js_field_module_arg, component)>>)>>,
                   <<>>, 0)

ModuleFragments ==
    {ModuleFragment(type_condition, id, component) :
        type_condition \in {"A", NoType}, id \in {"m1", "m2"},
        component \in {"C1", "C2"}}

LinkedB == LinkedField(NoAlias, "b", <<>>, <<>>, 0)
SpreadG == FragmentSpread("G")

\* One worker: transform_operation on one operation.
MetadataOperation(name) ==
    /\ pc = "transform"
    /\ name \in DOMAIN program.operations \ DOMAIN operations
    /\ operations' = (name :> collected(program.operations[name],
                                        metadata_transform_operation(
                                            program.operations[name]).result))
                         @@ operations
    /\ UNCHANGED <<program, cache, fragments, next_program, pc, view, build_vars, compiler_vars>>

\* One worker: transform_fragment on one fragment, with the hasher of its
\* maps; a panic ends the transform.
MetadataFragment(name) ==
    /\ pc = "transform"
    /\ name \in DOMAIN program.fragments \ DOMAIN fragments
    /\ \E hasher \in Hashers :
           LET r == metadata_transform_fragment(program.fragments[name], hasher)
           IN  IF r.panicked
               THEN /\ pc' = "panic"
                    /\ UNCHANGED fragments
               ELSE /\ fragments' = (name :> collected(program.fragments[name],
                                                       r.result)) @@ fragments
                    /\ UNCHANGED pc
    /\ UNCHANGED <<program, cache, operations, next_program, view, build_vars, compiler_vars>>

NextMetadata ==
    \/ \E name \in DOMAIN program.operations : MetadataOperation(name)
    \/ \E name \in DOMAIN program.fragments : MetadataFragment(name)
    \/ BuildProgram

InitMetadata ==
    InitOf(InputProgramOfTwo(MaxNodesMetadata, {ScalarX, SpreadF, SpreadG},
                             ModuleFragments \cup {LinkedB, ConditionC}))

SpecMetadata == InitMetadata /\ [][NextMetadata]_vars


\* The uses of the module directive at and below `selections`, whose parent
\* type is `parent_type`: the id, the type name of the place, the component
\* and the fragment spreads directly inside.
RECURSIVE ModuleUses(_, _)
ModuleUses(selections, parent_type) ==
    UNION {CASE IsLeaf(selections[i]) -> {}
             [] selections[i].kind = "LinkedField" ->
                    ModuleUses(selections[i].selections,
                               IF selections[i].name \in ListFields
                               THEN ListOf(schema[selections[i].name])
                               ELSE Named(schema[selections[i].name]))
             [] selections[i].kind = "Condition" ->
                    ModuleUses(selections[i].selections, parent_type)
             [] selections[i].kind = "InlineFragment" ->
                    LET type == IF selections[i].type_condition = NoType
                                THEN parent_type
                                ELSE Named(selections[i].type_condition)
                        modules == {j \in DOMAIN selections[i].directives :
                                        selections[i].directives[j].name
                                            = custom_module_directive_name}
                    IN  {[id |-> get_argument_value(selections[i].directives[j],
                                                    js_field_id_arg),
                          type_name |-> get_type_string(type),
                          component |-> get_argument_value(selections[i].directives[j],
                                                           js_field_module_arg),
                          spreads |-> find_fragment_spread(selections[i].selections)]
                         : j \in modules}
                        \cup ModuleUses(selections[i].selections, type)
           : i \in DOMAIN selections}

ModuleUsesOf(fragment) ==
    ModuleUses(fragment.selections, Named(fragment.type_condition))

\* The type names of S in ascending order.
Ascending(S) ==
    CHOOSE order \in Orders(S) :
        \A i, j \in DOMAIN order : i < j => string_cmp_less(order[i], order[j])

\* The text of the branch of one use.
BranchText(use) ==
    "\"" \o use.type_name \o "\":{\"component\":\"" \o use.component
        \o "\",\"fragment\":\"" \o use.spreads[1].fragment
        \o "$normalization.graphql\"}"

\* The JSON strings of the uses of one id: the branches ascending by type
\* name, one for each type name, taken from a use with that type name.
MetadataStrings(uses) ==
    LET names == Ascending({use.type_name : use \in uses})
    IN  {"{\"branches\":{"
             \o join([k \in DOMAIN names |-> BranchText(pick[names[k]])], ",")
             \o "},\"plural\":" \o plural \o "}"
         : plural \in {"true", "false"},
           pick \in {p \in [{use.type_name : use \in uses} -> uses] :
                        \A name \in DOMAIN p : p[name].type_name = name}}

\* C15: a fragment with @module inline fragments is given exactly one
\* directive, __dataDrivenDependencyMetadata, with one argument for each
\* module id, the arguments ascending by id, the value of each the JSON
\* string of its branches, ascending by type name and one for each type
\* name, and of `plural`; the hasher of the maps does not change it.
C15_MetadataDirectiveIsCanonical ==
    \A name \in DOMAIN fragments :
        ModuleUsesOf(program.fragments[name]) # {}
        => /\ Len(fragments[name].directives) = 1
           /\ fragments[name].directives[1].name = DATA_DRIVEN_DEPENDENCY_METADATA_KEY
           /\ LET arguments == fragments[name].directives[1].arguments
                  uses == ModuleUsesOf(program.fragments[name])
              IN  /\ Len(arguments) = Cardinality({use.id : use \in uses})
                  /\ {arguments[i].name : i \in DOMAIN arguments}
                         = {use.id : use \in uses}
                  /\ \A i, j \in DOMAIN arguments :
                         i < j => string_key_cmp_less(arguments[i].name,
                                                      arguments[j].name)
                  /\ \A i \in DOMAIN arguments :
                         arguments[i].value \in
                             MetadataStrings({use \in uses :
                                                  use.id = arguments[i].name})
           /\ \A hasher \in Hashers :
                  metadata_transform_fragment(program.fragments[name], hasher).result
                      = Replace(fragments[name])

\* The fragment F has the module ids m2 and m1, in this order, and its
\* directive has the argument of m1 before the one of m2.
C15_Witness ==
    /\ Done
    /\ DOMAIN program.fragments = {"F"}
    /\ program.fragments["F"].selections =
           <<[ModuleFragment(NoType, "m2", "C1") EXCEPT !.selections = <<SpreadF>>],
             [ModuleFragment("A", "m1", "C2") EXCEPT !.selections = <<SpreadG>>]>>
    /\ Len(next_program.fragments["F"].directives) = 1
    /\ Len(next_program.fragments["F"].directives[1].arguments) = 2
    /\ next_program.fragments["F"].directives[1].arguments[1].name = "m1"


\* The uses of the module directive in a definition that have no fragment
\* spread directly inside.
UsesWithoutFragmentSpread(definition) ==
    {use \in ModuleUses(definition.selections,
                        Named(IF "type_condition" \in DOMAIN definition
                              THEN definition.type_condition ELSE definition.kind)) :
        use.spreads = <<>>}

\* C16: where an inline fragment with the module directive has no fragment
\* spread directly inside, the transform yields no program, and no
\* definition that holds such an inline fragment is passed over as
\* transformed.
C16_ModuleWithoutFragmentSpreadPanics ==
    /\ \A definition_kind \in DefinitionKinds :
           \A name \in DOMAIN program[definition_kind] :
               UsesWithoutFragmentSpread(program[definition_kind][name]) # {}
                   => /\ ~Done
                      /\ name \notin DOMAIN operations
                      /\ name \notin DOMAIN fragments


(***************************************************************************)
(* build_ir: the IR and the source hashes of a project, from the           *)
(* definitions of its source set and of the one of its base project.       *)
(***************************************************************************)
\* The name of an anonymous operation (ast.name() is None), no base project.
NoName == ""
NoBase == ""

\* graphql_syntax::ExecutableDefinition: its name and the fragments it spreads.
ExecutableDefinition(kind, name, spreads) ==
    [kind |-> kind, name |-> name, spreads |-> spreads]

GraphQLAsts(asts, changed_definition_names) ==
    [asts |-> asts, changed_definition_names |-> changed_definition_names]

ProjectConfig(name, base) == [name |-> name, base |-> base]

\* `graphql_asts.get(name).map(..).unwrap_or_default()`
asts_of(asts_by_source_set, name) ==
    IF name \in DOMAIN asts_by_source_set THEN asts_by_source_set[name].asts ELSE <<>>

changed_definition_names_of(asts_by_source_set, name) ==
    IF name \in DOMAIN asts_by_source_set
    THEN asts_by_source_set[name].changed_definition_names ELSE {}

\* `.filter_map(|definition| definition.name()).collect()`
definition_names(definitions) ==
    {definitions[i].name : i \in DOMAIN definitions} \ {NoName}

spread_names(definition) == {definition.spreads[i] : i \in DOMAIN definition.spreads}

\* The names reached from `names` by the fragment spreads of `definitions`.
RECURSIVE spread_closure(_, _)
spread_closure(names, definitions) ==
    IF UNION {spread_names(definitions[i]) :
                 i \in {j \in DOMAIN definitions : definitions[j].name \in names}}
           \subseteq names
    THEN names
    ELSE spread_closure(
             names \cup UNION {spread_names(definitions[i]) :
                                  i \in {j \in DOMAIN definitions :
                                             definitions[j].name \in names}},
             definitions)

\* dependency_analyzer::get_reachable_ast: the definitions of the project and
\* the ones of the base project that they reach by fragment spreads.
get_reachable_ast(project_asts, base_project_asts) ==
    LET reached ==
            spread_closure(UNION {spread_names(project_asts[i]) : i \in DOMAIN project_asts},
                           project_asts \o base_project_asts)
        base_definitions ==
            SelectSeq(base_project_asts, LAMBDA definition : definition.name \in reached)
    IN  [definitions |-> project_asts \o base_definitions,
         base_fragment_names |-> definition_names(base_definitions)]

join_spreads(spreads) == join([i \in DOMAIN spreads |-> "..." \o spreads[i]], " ")

\* graphql_text_printer::print_executable_definition_ast
print_executable_definition_ast(ast) ==
    ast.kind \o " " \o ast.name \o " { " \o join_spreads(ast.spreads) \o " }"

\* The hexadecimal MD5 of a text.
md5(data) == "md5(" \o data \o ")"

\* The last definition of a name.
last_named(definitions, name) ==
    CHOOSE i \in DOMAIN definitions :
        /\ definitions[i].name = name
        /\ \A j \in DOMAIN definitions : definitions[j].name = name => j <= i

\* A hash for each definition but the first of the list.
from_definitions_but_the_first(definitions) ==
    [name \in definition_names(SubSeq(definitions, 2, Len(definitions))) |->
         md5(print_executable_definition_ast(
                 definitions[last_named(definitions, name)]))]

\* SourceHashes::from_definitions: the last definition of a name is the one
\* whose hash the map holds.
from_definitions(definitions) ==
    [name \in definition_names(definitions) |->
         md5(print_executable_definition_ast(
                 definitions[last_named(definitions, name)]))]

\* graphql_ir::ExecutableDefinition, built of a definition of the syntax.
ir_definition(ast) ==
    [ir |-> ast.kind, name |-> ast.name,
     fragment_spreads |-> spread_names(ast)]

\* The fragments that are spread and that no definition defines.
undefined_fragments(definitions) ==
    UNION {spread_names(definitions[i]) : i \in DOMAIN definitions}
        \ definition_names(definitions)

\* graphql_ir::build: the IR of the definitions, or the validation errors.
build(definitions) ==
    IF undefined_fragments(definitions) # {}
    THEN [ok |-> FALSE, errors |-> undefined_fragments(definitions)]
    ELSE [ok |-> TRUE,
          ir |-> [i \in DOMAIN definitions |-> ir_definition(definitions[i])]]

\* The names of the definitions that spread one of `names`, and theirs.
RECURSIVE inverse_spread_closure(_, _)
inverse_spread_closure(names, ir) ==
    IF {ir[i].name : i \in {j \in DOMAIN ir : ir[j].fragment_spreads \cap names # {}}}
           \subseteq names
    THEN names
    ELSE inverse_spread_closure(
             names \cup {ir[i].name :
                            i \in {j \in DOMAIN ir :
                                       ir[j].fragment_spreads \cap names # {}}},
             ir)

\* dependency_analyzer::get_reachable_ir: the definitions that a change of
\* `changed_names` may affect, the ones of the base project left out.
get_reachable_ir(ir, base_definition_names, changed_names) ==
    SelectSeq(ir, LAMBDA definition :
                      /\ definition.name \notin base_definition_names
                      /\ \/ definition.name \in changed_names
                         \/ definition.fragment_spreads
                                \cap inverse_spread_closure(changed_names, ir) # {})

\* The changed names of the project only.
changed_names_of_project(config, asts_by_source_set) ==
    changed_definition_names_of(asts_by_source_set, config.name)

\* The changed names of the project, extended by the ones of its base.
changed_names_of(config, asts_by_source_set) ==
    changed_definition_names_of(asts_by_source_set, config.name)
        \cup (IF config.base # NoBase
              THEN changed_definition_names_of(asts_by_source_set, config.base)
              ELSE {})

\* `match project_config.base`: the definitions of the base project.
base_project_asts_of(config, asts_by_source_set) ==
    IF config.base # NoBase THEN asts_of(asts_by_source_set, config.base) ELSE <<>>

BuildIRResult(ir, source_hashes, base_fragment_names) ==
    [ok |-> TRUE, ir |-> ir, source_hashes |-> source_hashes,
     base_fragment_names |-> base_fragment_names]

\* The end of build_ir, the IR being built.
build_ir_of(config, asts_by_source_set, is_incremental_build, reachable, built) ==
    IF ~built.ok THEN built
    ELSE BuildIRResult(
             IF is_incremental_build
             THEN get_reachable_ir(
                      built.ir,
                      definition_names(base_project_asts_of(config, asts_by_source_set)),
                      changed_names_of(config, asts_by_source_set))
             ELSE built.ir,
             from_definitions(reachable.definitions),
             reachable.base_fragment_names)

build_ir_reachable(config, asts_by_source_set, is_incremental_build, reachable) ==
    build_ir_of(config, asts_by_source_set, is_incremental_build, reachable,
                build(reachable.definitions))

build_ir(config, asts_by_source_set, is_incremental_build) ==
    build_ir_reachable(
        config, asts_by_source_set, is_incremental_build,
        get_reachable_ast(asts_of(asts_by_source_set, config.name),
                          base_project_asts_of(config, asts_by_source_set)))

\* The source sets: the definitions a source set may hold, in their order,
\* each with at most MaxSpreads spreads of the fragments F, B and C.
ProjectDefinitions == <<[kind |-> "query", name |-> "Q"],
                        [kind |-> "query", name |-> NoName],
                        [kind |-> "fragment", name |-> "F"]>>
BaseDefinitions == <<[kind |-> "fragment", name |-> "B"],
                     [kind |-> "fragment", name |-> "C"]>>

\* The fragments that are spread, each once, in the order F, B, C.
SpreadLists ==
    {SelectSeq(<<"F", "B", "C">>, LAMBDA name : name \in names) :
        names \in {S \in SUBSET {"F", "B", "C"} : Cardinality(S) <= MaxSpreads}}

Absent == [absent |-> TRUE]

\* The definitions that are chosen, each with its spreads.
RECURSIVE AstsOf(_, _, _)
AstsOf(candidates, choice, i) ==
    IF i > Len(candidates) THEN <<>>
    ELSE (IF choice[i] = Absent THEN <<>>
          ELSE <<ExecutableDefinition(candidates[i].kind, candidates[i].name,
                                      choice[i].spreads)>>)
         \o AstsOf(candidates, choice, i + 1)

Choices(candidates) ==
    [DOMAIN candidates -> {Absent} \cup {[spreads |-> spreads] : spreads \in SpreadLists}]

\* A source set that holds nothing is not among the ones that were read.
SourceSet(name, asts, changed_definition_names) ==
    IF asts = <<>> /\ changed_definition_names = {} THEN <<>>
    ELSE name :> GraphQLAsts(asts, changed_definition_names)

NotTransforming ==
    /\ program = NoProgram
    /\ cache = EmptyCache
    /\ operations = <<>>
    /\ fragments = <<>>
    /\ next_program = NoProgram
    /\ view = <<>>

InitBuildIr ==
    /\ NotTransforming
    /\ pc = "build_ir"
    /\ \E base \in {NoBase, "base"} : project_config = ProjectConfig("project", base)
    /\ \E project_choice \in Choices(ProjectDefinitions) :
       \E base_choice \in Choices(BaseDefinitions) :
       \E project_changed \in
              SUBSET definition_names(AstsOf(ProjectDefinitions, project_choice, 1)) :
       \E base_changed \in
              SUBSET definition_names(AstsOf(BaseDefinitions, base_choice, 1)) :
           graphql_asts =
               SourceSet("project", AstsOf(ProjectDefinitions, project_choice, 1),
                         project_changed)
               @@ SourceSet("base", AstsOf(BaseDefinitions, base_choice, 1),
                            base_changed)
    /\ build_ir_result = NoBuildIRResult
    /\ NotGenerating
    /\ NotCompiling
    /\ NotPrinting
    /\ NotCalling

\* build_ir, incremental or not.
BuildIr ==
    /\ pc = "build_ir"
    /\ \E is_incremental_build \in BOOLEAN :
           build_ir_result' =
               [called |-> TRUE, is_incremental_build |-> is_incremental_build]
                   @@ build_ir(project_config, graphql_asts, is_incremental_build)
    /\ pc' = "done"
    /\ UNCHANGED <<program, cache, operations, fragments, next_program, view,
                   project_config, graphql_asts, programs, artifacts, persist_calls, compiler_vars>>

NextBuildIr == BuildIr

SpecBuildIr == InitBuildIr /\ [][NextBuildIr]_vars


\* The definitions of the project that is built and of its base project.
ProjectAsts == asts_of(graphql_asts, project_config.name)
BaseAsts ==
    IF project_config.base = NoBase THEN <<>>
    ELSE asts_of(graphql_asts, project_config.base)

\* `definition` is named in `targets` or spreads, in at most n steps through
\* `definitions`, a fragment that is.
RECURSIVE Reaches(_, _, _, _)
Reaches(definition, targets, definitions, n) ==
    \/ definition.name \in targets
    \/ /\ n > 0
       /\ \E i \in DOMAIN definitions :
              /\ definitions[i].name \in spread_names(definition)
              /\ Reaches(definitions[i], targets, definitions, n - 1)

\* The reachable closure: the definitions of the project and the fragments
\* of the base project that one of them reaches.
ReachableOf(project_asts, base_asts) ==
    project_asts
        \o SelectSeq(base_asts,
                     LAMBDA fragment :
                         \E i \in DOMAIN project_asts :
                             Reaches(project_asts[i], {fragment.name},
                                     project_asts \o base_asts,
                                     Len(project_asts) + Len(base_asts)))

ReachableAsts == ReachableOf(ProjectAsts, BaseAsts)

\* The IR of the definitions of `reachable` that are changed or reach a
\* changed definition, the ones named in the base project left out.
AffectedOf(reachable, base_names, changed) ==
    SelectSeq(reachable,
              LAMBDA definition :
                  /\ definition.name \notin base_names
                  /\ Reaches(definition, changed, reachable, Len(reachable)))

IrOf(definitions) == [i \in DOMAIN definitions |-> ir_definition(definitions[i])]

\* The changed names of the project and of its base project.
ChangedNames ==
    changed_definition_names_of(graphql_asts, project_config.name)
        \cup (IF project_config.base = NoBase THEN {}
              ELSE changed_definition_names_of(graphql_asts, project_config.base))

Succeeded == build_ir_result.called /\ build_ir_result.ok

\* C17: an incremental build returns the IR of the definitions of the
\* reachable closure that are changed or reach a changed definition by
\* fragment spreads, none of them named in the base project; a build that is
\* not incremental returns the IR of every definition of the closure.
C17_IncrementalIrIsTheAffectedIr ==
    Succeeded =>
        build_ir_result.ir =
            IF build_ir_result.is_incremental_build
            THEN IrOf(AffectedOf(ReachableAsts, definition_names(BaseAsts), ChangedNames))
            ELSE IrOf(ReachableAsts)

\* The fragment B of the base project has changed; the query Q spreads F,
\* which spreads B: the incremental build returns Q and F.
C17_Witness ==
    /\ Succeeded
    /\ build_ir_result.is_incremental_build
    /\ project_config.base # NoBase
    /\ changed_definition_names_of(graphql_asts, project_config.name) = {}
    /\ changed_definition_names_of(graphql_asts, project_config.base) = {"B"}
    /\ ProjectAsts = <<ExecutableDefinition("query", "Q", <<"F">>),
                       ExecutableDefinition("fragment", "F", <<"B">>)>>
    /\ Len(build_ir_result.ir) = 2

\* The hash of the printed definition, for each name of `definitions`.
HashesOf(definitions) ==
    [name \in definition_names(definitions) |->
         md5(print_executable_definition_ast(
                 CHOOSE definition \in {definitions[i] : i \in DOMAIN definitions} :
                     definition.name = name))]

\* C18: the source hashes of a build that succeeds have an entry for the
\* name of each named definition of the reachable closure and for nothing
\* else, and the entry is the hash of the printed definition.
C18_SourceHashesOfTheClosure ==
    Succeeded => build_ir_result.source_hashes = HashesOf(ReachableAsts)

\* The project has an anonymous query and the fragment F, which spreads B
\* of the base project; the base project also has C, which nothing reaches.
C18_Witness ==
    /\ Succeeded
    /\ ProjectAsts = <<ExecutableDefinition("query", NoName, <<"F">>),
                       ExecutableDefinition("fragment", "F", <<"B">>)>>
    /\ definition_names(BaseAsts) = {"B", "C"}
    /\ DOMAIN build_ir_result.source_hashes = {"F", "B"}


(***************************************************************************)
(* generate_artifacts: an artifact for each operation of the normalization *)
(* program, then one for each fragment of the reader program.  The         *)
(* programs are the ones of apply_transforms.                              *)
(***************************************************************************)
\* generate_data_driven_dependency_metadata as a function of the program.
metadata_fragments(p, hasher) ==
    [name \in DOMAIN p.fragments |-> metadata_transform_fragment(p.fragments[name], hasher)]

metadata_program(p, transformed) ==
    [panicked |-> \E name \in DOMAIN transformed : transformed[name].panicked,
     program |-> Program(p.operations,
                         [name \in DOMAIN transformed |->
                              collected(p.fragments[name], transformed[name].result)])]

generate_data_driven_dependency_metadata(p, hasher) ==
    metadata_program(p, metadata_fragments(p, hasher))

\* The pipelines of apply_transforms, of the transforms that it has here:
\* the other transforms keep the definitions of a program.
Programs(reader, normalization, operation_text) ==
    [applied |-> TRUE, reader |-> reader, normalization |-> normalization,
     operation_text |-> operation_text]

apply_transforms_of(p, reader, normalization) ==
    [panicked |-> normalization.panicked,
     programs |-> Programs(reader, normalization.program, p)]

apply_transforms_reader(p, reader, hasher) ==
    apply_transforms_of(p, reader, generate_data_driven_dependency_metadata(reader, hasher))

apply_transforms(p, hasher) ==
    apply_transforms_reader(p, skip_redundant_nodes(p), hasher)

\* No definition of that name: the look-up finds nothing.
operation_not_found(p, name) == [some |-> FALSE]

\* Program::operation(name)
operation(p, name) ==
    IF name \in DOMAIN p.operations
    THEN [some |-> TRUE, operation |-> p.operations[name]]
    ELSE [some |-> FALSE]

\* OperationPrinter::print: the text of an operation.
print(operation_node) ==
    "query " \o operation_node.name \o " { "
        \o join([i \in DOMAIN operation_node.selections |->
                     operation_node.selections[i].kind], " ")
        \o " }"

\* relay_codegen::print_request_deduped, print_fragment_deduped
print_request_deduped(node, operation_fragment) ==
    "{request: " \o node.name \o ", fragment: " \o operation_fragment.name \o "}"
print_fragment_deduped(node) == "{fragment: " \o node.name \o "}"

SIGNING_TOKEN == "@generated"

\* signedsource::sign_file
sign_file(content) == "SignedSource<<" \o content \o ">>"

Artifact(name, content) == [name |-> name, content |-> content]

\* The persistence of the project: none, or the one of a URL.
NoPersist == [some |-> FALSE]
PersistConfig == [some |-> TRUE, url |-> "https://persist", params |-> <<>>]

\* What the call of `persist` returns: an id, or an error.
PersistResults == {[ok |-> TRUE, id |-> "id1"], [ok |-> FALSE]}

\* The artifact of an operation.
operation_artifact(node, reader_operation, text, id) ==
    Artifact(node.name,
             sign_file("// " \o SIGNING_TOKEN \o "\n\nconst request = "
                           \o print_request_deduped(
                                  node,
                                  [FragmentDefinition(reader_operation.name,
                                                      reader_operation.kind,
                                                      reader_operation.selections)
                                       EXCEPT !.directives = <<>>])
                           \o ";\n\nconst text = " \o text
                           \o ";\n\nconst id = " \o id \o ";\n"))

\* The artifact of a fragment.
fragment_artifact(node) ==
    Artifact(node.name,
             sign_file("// " \o SIGNING_TOKEN \o "\n\nconst fragment = "
                           \o print_fragment_deduped(node) \o ";\n"))

ArtifactNames == {artifacts[i].name : i \in DOMAIN artifacts}

\* apply_transforms on the program of the project.
ApplyTransforms ==
    /\ pc = "apply_transforms"
    /\ \E hasher \in Hashers :
           LET r == apply_transforms(program, hasher)
           IN  IF r.panicked
               THEN /\ pc' = "panic: Expected to have a fragment spread"
                    /\ UNCHANGED programs
               ELSE /\ pc' = "generate_artifacts"
                    /\ programs' = r.programs
    /\ UNCHANGED <<program, cache, operations, fragments, next_program, view,
                   project_config, graphql_asts, build_ir_result, artifacts,
                   persist_calls, compiler_vars>>

\* One turn of the first loop, the query text being found: the id is asked
\* for where a persistence is configured, then the reader operation is
\* looked up and the artifact is pushed.
PushOperationArtifact(name, print_operation_node, persisted) ==
    /\ persist_calls' = IF project_config.persist.some
                        THEN Append(persist_calls, print(print_operation_node.operation))
                        ELSE persist_calls
    /\ IF project_config.persist.some /\ ~persisted.ok
       THEN /\ pc' = "panic: TODO: error type for persist failures"
            /\ UNCHANGED artifacts
       ELSE IF ~operation(programs.reader, name).some
            THEN /\ pc' = "panic: a reader fragment should be generated for this operation"
                 /\ UNCHANGED artifacts
            ELSE /\ artifacts' =
                        Append(artifacts,
                               operation_artifact(
                                   programs.normalization.operations[name],
                                   operation(programs.reader, name).operation,
                                   print(print_operation_node.operation),
                                   IF project_config.persist.some
                                   THEN persisted.id ELSE "null"))
                 /\ UNCHANGED pc

\* One turn of `for node in programs.normalization.operations()`.
GenerateOperationArtifact(name) ==
    /\ pc = "generate_artifacts"
    /\ name \in DOMAIN programs.normalization.operations \ ArtifactNames
    /\ IF ~operation(programs.operation_text, name).some
       THEN /\ pc' = "panic: a query text operation should be generated for this operation"
            /\ UNCHANGED <<artifacts, persist_calls>>
       ELSE \E persisted \in PersistResults :
                PushOperationArtifact(name, operation(programs.operation_text, name),
                                      persisted)
    /\ UNCHANGED <<program, cache, operations, fragments, next_program, view,
                   project_config, graphql_asts, build_ir_result, programs, compiler_vars>>

\* One turn of `for node in programs.reader.fragments()`, after the first loop.
GenerateFragmentArtifact(name) ==
    /\ pc = "generate_artifacts"
    /\ DOMAIN programs.normalization.operations \subseteq ArtifactNames
    /\ name \in DOMAIN programs.reader.fragments \ ArtifactNames
    /\ artifacts' = Append(artifacts, fragment_artifact(programs.reader.fragments[name]))
    /\ UNCHANGED <<program, cache, operations, fragments, next_program, pc, view,
                   project_config, graphql_asts, build_ir_result, programs,
                   persist_calls, compiler_vars>>

\* The artifacts are returned.
ReturnArtifacts ==
    /\ pc = "generate_artifacts"
    /\ DOMAIN programs.normalization.operations \subseteq ArtifactNames
    /\ DOMAIN programs.reader.fragments \subseteq ArtifactNames
    /\ pc' = "done"
    /\ UNCHANGED <<program, cache, operations, fragments, next_program, view,
                   build_vars, compiler_vars>>

NextArtifacts ==
    \/ ApplyTransforms
    \/ \E name \in {"Q", "R"} : GenerateOperationArtifact(name)
    \/ \E name \in {"F"} : GenerateFragmentArtifact(name)
    \/ ReturnArtifacts

InitArtifacts ==
    /\ InputProgramOfThree(MaxNodesArtifacts, {ScalarX, SpreadF},
                           {LinkedA, ConditionC, ModuleFragment("A", "m1", "C1")})
    /\ cache = EmptyCache
    /\ operations = <<>>
    /\ fragments = <<>>
    /\ next_program = NoProgram
    /\ view = <<>>
    /\ pc = "apply_transforms"
    /\ \E persist \in {NoPersist, PersistConfig} :
           project_config = [name |-> "project", base |-> NoBase, persist |-> persist]
    /\ graphql_asts = <<>>
    /\ build_ir_result = NoBuildIRResult
    /\ NotGenerating
    /\ NotCompiling
    /\ NotPrinting
    /\ NotCalling

SpecArtifacts == InitArtifacts /\ [][NextArtifacts]_vars


\* The names of the operations of the normalization program.
NormalizationOperations ==
    IF programs.applied THEN DOMAIN programs.normalization.operations ELSE {}

ReaderFragments ==
    IF programs.applied THEN DOMAIN programs.reader.fragments ELSE {}

LookupPanics ==
    {"panic: a query text operation should be generated for this operation",
     "panic: a reader fragment should be generated for this operation"}

C20_PersistFailureIsReturned ==
    /\ pc # "panic: TODO: error type for persist failures"
    /\ programs.applied /\ ~project_config.persist.some
           => /\ persist_calls = <<>>
              /\ \A i \in DOMAIN artifacts :
                     artifacts[i].name \in NormalizationOperations
                         => artifacts[i] =
                                operation_artifact(
                                    programs.normalization.operations[artifacts[i].name],
                                    programs.reader.operations[artifacts[i].name],
                                    print(programs.operation_text.operations[
                                              artifacts[i].name]),
                                    "null")



\* ---------------------------------------------------------------------
\* relay-compiler/src/compiler.rs: Compiler::compile.
\* ---------------------------------------------------------------------

\* `SourceSetName(StringKey)`, the name of the source set of a project.
as_source_set_name(project_name) == <<project_name>>

\* A source text of a file: the definitions it holds and the syntax errors
\* that the parser finds in it.
FileSource(source, definitions, syntax_errors) ==
    [source |-> source, definitions |-> definitions, syntax_errors |-> syntax_errors]

\* graphql_syntax::parse: the document, or the errors.
parse(file_source) ==
    IF file_source.syntax_errors # <<>>
    THEN [ok |-> FALSE, errors |-> file_source.syntax_errors]
    ELSE [ok |-> TRUE, definitions |-> file_source.definitions]

\* `error.print(&file_source)` of a syntax error.
print_syntax_error(error, file_source) == file_source.source \o ": " \o error

\* `asts.extend(document.definitions)` for the sources of a set, from the i-th.
RECURSIVE asts_extended(_, _)
asts_extended(file_sources, i) ==
    IF i > Len(file_sources) THEN <<>>
    ELSE (IF parse(file_sources[i]).ok THEN parse(file_sources[i]).definitions
          ELSE <<>>)
         \o asts_extended(file_sources, i + 1)

\* `errors.extend(...)` for the sources of a set, from the i-th.
RECURSIVE errors_extended(_, _)
errors_extended(file_sources, i) ==
    IF i > Len(file_sources) THEN <<>>
    ELSE (IF parse(file_sources[i]).ok THEN <<>>
          ELSE [j \in DOMAIN parse(file_sources[i]).errors |->
                    print_syntax_error(parse(file_sources[i]).errors[j],
                                       file_sources[i])])
         \o errors_extended(file_sources, i + 1)

\* What `println!` writes: the project of the line, its text, the number
\* and the errors that it prints.
StdoutLine(project, text, count, printed_errors) ==
    [project |-> project, text |-> text, count |-> count, printed |-> printed_errors]

\* Lines 69-70.
parse_errors_lines(parse_errors) ==
    <<StdoutLine("", "Failed with parse errors:", 0, {}),
      StdoutLine("", join(parse_errors, "\n\n"), 0, {})>>

\* Lines 121-133, with the first of the errors only.
first_validation_error_lines(project_name, validation_errors) ==
    <<StdoutLine(project_name, "Failed with validation errors:",
                 Cardinality(validation_errors), {}),
      StdoutLine(project_name, "", 0,
                 {CHOOSE error \in validation_errors : TRUE})>>

\* Lines 121-133: the number of the validation errors, then all of them.
validation_errors_lines(project_name, validation_errors) ==
    <<StdoutLine(project_name, "Failed with validation errors:",
                 Cardinality(validation_errors), {}),
      StdoutLine(project_name, "", 0, validation_errors)>>

\* Line 138.
ir_node_count_lines(project_name, ir) ==
    <<StdoutLine(project_name, "IR node count", Len(ir), {})>>

\* Lines 118-138: what an iteration of the loop of the projects prints.
project_lines(project_name, built) ==
    IF built.ok THEN ir_node_count_lines(project_name, built.ir)
    ELSE validation_errors_lines(project_name, built.errors)

\* Lines 84-101: the definitions of the base project, if there is one.
base_document_asts_of(project, sets) ==
    IF project.base # NoBase
    THEN sets[as_source_set_name(project.base)]
    ELSE <<>>

\* Lines 77 and 115-117.
reachable_ast_of(project, sets) ==
    get_reachable_ast(sets[as_source_set_name(project.name)],
                      base_document_asts_of(project, sets)).definitions

AllParsed == DOMAIN ast_sets = DOMAIN compiler_state.source_sets

\* Lines 47-67, for one source set; the order of the sets is the one of the
\* iteration of a map.
ParseSourceSet ==
    /\ pc = "compile"
    /\ \E source_set_name \in DOMAIN compiler_state.source_sets \ DOMAIN ast_sets :
           /\ ast_sets' =
                  ast_sets @@ (source_set_name :>
                                   asts_extended(
                                       compiler_state.source_sets[source_set_name], 1))
           /\ errors' =
                  errors \o errors_extended(
                                compiler_state.source_sets[source_set_name], 1)
    /\ UNCHANGED <<program, cache, operations, fragments, next_program, pc, view,
                   build_vars, self_config, compiler_state, stdout, remaining_projects,
                   error_vars, call_vars>>

\* Lines 68-72: the parse errors are printed and compile returns.
ReturnParseErrors ==
    /\ pc = "compile"
    /\ AllParsed
    /\ errors # <<>>
    /\ stdout' = stdout \o parse_errors_lines(errors)
    /\ pc' = "done"
    /\ UNCHANGED <<program, cache, operations, fragments, next_program, view,
                   build_vars, self_config, compiler_state, ast_sets, errors,
                   remaining_projects,
                   error_vars, call_vars>>

\* Lines 75-139, for one project; the order of the projects is the one of the
\* iteration of a map.
BuildProject ==
    /\ pc = "compile"
    /\ AllParsed
    /\ errors = <<>>
    /\ \E project_name \in remaining_projects :
           /\ stdout' =
                  stdout \o project_lines(
                                project_name,
                                build(reachable_ast_of(
                                          self_config.projects[project_name], ast_sets)))
           /\ remaining_projects' = remaining_projects \ {project_name}
           /\ pc' = IF remaining_projects = {project_name} THEN "done" ELSE pc
    /\ UNCHANGED <<program, cache, operations, fragments, next_program, view,
                   build_vars, self_config, compiler_state, ast_sets, errors,
                   error_vars, call_vars>>

NextCompile ==
    \/ ParseSourceSet
    \/ ReturnParseErrors
    \/ BuildProject

\* The sources that the source sets of the projects A and B may hold.
SourcesOfA ==
    <<FileSource("F.graphql:0", <<ExecutableDefinition("fragment", "F", <<>>)>>, <<>>),
      FileSource("FA.graphql:0", <<ExecutableDefinition("fragment", "FA", <<"G">>)>>, <<>>),
      FileSource("A.graphql:0", <<>>, <<"Unexpected token", "Expected a name">>)>>
SourcesOfB ==
    <<FileSource("Q.graphql:0", <<ExecutableDefinition("query", "Q", <<"F">>)>>, <<>>),
      FileSource("P.graphql:0", <<ExecutableDefinition("query", "P", <<"H">>),
                                  ExecutableDefinition("fragment", "K", <<"I">>)>>, <<>>),
      FileSource("B.graphql:0", <<>>, <<"Unexpected token">>)>>

\* The sources of `candidates` that `chosen` holds, in their order.
SourcesIn(candidates, chosen) ==
    SelectSeq(candidates, LAMBDA file_source : file_source.source \in chosen)

SourceNames(candidates) == {candidates[i].source : i \in DOMAIN candidates}

InitCompile ==
    /\ NotTransforming
    /\ NotBuilding
    /\ pc = "compile"
    /\ \E base \in {NoBase, "A"} :
           self_config = [projects |-> ("A" :> ProjectConfig("A", NoBase))
                                       @@ ("B" :> ProjectConfig("B", base))]
    /\ \E chosen_of_a \in SUBSET SourceNames(SourcesOfA) :
       \E chosen_of_b \in SUBSET SourceNames(SourcesOfB) :
           compiler_state =
               [source_sets |->
                    (as_source_set_name("A") :> SourcesIn(SourcesOfA, chosen_of_a))
                    @@ (as_source_set_name("B") :> SourcesIn(SourcesOfB, chosen_of_b))]
    /\ ast_sets = <<>>
    /\ errors = <<>>
    /\ stdout = <<>>
    /\ remaining_projects = {"A", "B"}
    /\ NotPrinting
    /\ NotCalling

SpecCompile == InitCompile /\ [][NextCompile]_vars

\* The sources of the source sets of a project, its own and the one of its base.
SourcesOfProject(project_name) ==
    compiler_state.source_sets[as_source_set_name(project_name)]
        \o (IF self_config.projects[project_name].base # NoBase
            THEN compiler_state.source_sets[
                     as_source_set_name(self_config.projects[project_name].base)]
            ELSE <<>>)

NoParseErrorIn(project_name) ==
    \A i \in DOMAIN SourcesOfProject(project_name) :
        SourcesOfProject(project_name)[i].syntax_errors = <<>>

LinesOf(project_name) ==
    SelectSeq(stdout, LAMBDA line : line.project = project_name)

\* C21: the parse errors abort the build of the projects only whose source
\* set, own or base, holds a file that failed to parse: when compile returns,
\* a project none of whose source sets has a parse error has had its IR built.
C21_ParseErrorsAbortTheirProjectOnly ==
    pc = "done"
        => \A project_name \in DOMAIN self_config.projects :
               NoParseErrorIn(project_name) => LinesOf(project_name) # <<>>


\* Compiler::compile and build_ir, the two drivers of graphql_ir::build.
InitDrivers == InitCompile \/ InitBuildIr

NextDrivers ==
    \/ NextCompile
    \/ NextBuildIr

SpecDrivers == InitDrivers /\ [][NextDrivers]_vars

\* The fragments that `definitions` spread and do not define: the validation
\* errors of the model.
ValidationErrorsOf(definitions) ==
    {name \in UNION {{definitions[i].spreads[j] : j \in DOMAIN definitions[i].spreads} :
                        i \in DOMAIN definitions} :
        \A i \in DOMAIN definitions : definitions[i].name # name}

\* What compile has printed for a project, given its validation errors and
\* the number of its definitions.
ReportedAs(lines, project_name, validation_errors, node_count) ==
    IF validation_errors # {}
    THEN /\ Len(lines) = 2
         /\ lines[1].text = "Failed with validation errors:"
         /\ lines[1].count = Cardinality(validation_errors)
         /\ lines[2].printed = validation_errors
    ELSE /\ Len(lines) = 1
         /\ lines[1].text = "IR node count"
         /\ lines[1].count = node_count

\* What build_ir has returned, given the validation errors.
ReturnedAs(result, validation_errors) ==
    IF validation_errors # {}
    THEN /\ ~result.ok
         /\ result.errors = validation_errors
         /\ DOMAIN result = {"called", "is_incremental_build", "ok", "errors"}
    ELSE result.ok

\* C22: the validation errors of a project are reported together, all of
\* them, and no IR is produced for the project; compile goes on to the
\* projects that remain, so that it returns with every project built or
\* reported; build_ir returns the errors, all of them, and no BuildIRResult.
C22_ValidationErrorsAreAllReported ==
    /\ \A project_name \in DOMAIN self_config.projects \ remaining_projects :
           ReportedAs(LinesOf(project_name), project_name,
                      ValidationErrorsOf(
                          reachable_ast_of(self_config.projects[project_name], ast_sets)),
                      Len(reachable_ast_of(self_config.projects[project_name], ast_sets)))
    /\ pc = "done" /\ self_config # NoConfig /\ errors = <<>>
           => remaining_projects = {}
    /\ build_ir_result.called
           => ReturnedAs(build_ir_result,
                         ValidationErrorsOf(
                             get_reachable_ast(
                                 asts_of(graphql_asts, project_config.name),
                                 base_project_asts_of(project_config, graphql_asts)
                             ).definitions))

\* The project B has failed with two validation errors, and compile has gone
\* on to build the IR of the project A.
C22_Witness ==
    /\ pc = "done"
    /\ Len(stdout) = 3
    /\ stdout[1].project = "B"
    /\ stdout[1].count = 2
    /\ stdout[2].printed = {"H", "I"}
    /\ stdout[3] = StdoutLine("A", "IR node count", 1, {})



\* ---------------------------------------------------------------------
\* graphql-ir/src/errors.rs: ValidationError.
\* ---------------------------------------------------------------------

MaxLocations == 2

\* common::Location: the file and the span.
Location(file, span) == [file |-> file, span |-> span]

\* ValidationMessage and its Display.
ExpectedVariablesToBeDefined == [variant |-> "ExpectedVariablesToBeDefined"]
SyntaxError(error) == [variant |-> "SyntaxError", error |-> error]

message_string(message) ==
    IF message.variant = "SyntaxError" THEN message.error
    ELSE "Expected operation variables to be defined"

\* Location::print: the file and the span, then the listing of the source.
location_print(location, source) ==
    location.file \o ":" \o location.span \o ":\n" \o "> " \o source

\* `sources.get(&location.file())`
sources_get(sources, file) ==
    IF file \in DOMAIN sources THEN [some |-> TRUE, source |-> sources[file]]
    ELSE None

\* ValidationError::new
ValidationError_new(message, locations) ==
    [constructed |-> TRUE, message |-> message, locations |-> locations]

\* ValidationError::with_sources
with_sources(self, sources) ==
    [attached |-> TRUE,
     error |-> self,
     sources |-> [i \in DOMAIN self.locations |->
                      sources_get(sources, self.locations[i].file)]]

\* The listing of ValidationError::print for a location.
print_location(location, sources) ==
    location_print(location,
                   IF sources_get(sources, location.file).some
                   THEN sources_get(sources, location.file).source
                   ELSE "<source not found>")

\* ValidationError::print
ValidationError_print(self, sources) ==
    message_string(self.message) \o ":\n"
        \o join([i \in DOMAIN self.locations |->
                     print_location(self.locations[i], sources)],
                "\n\n")

\* The listing of the Display of a ValidationErrorWithSources for a location.
fmt_location(location, source) ==
    IF source.some THEN location_print(location, source.source)
    ELSE "<source not found>"

\* <ValidationErrorWithSources as fmt::Display>::fmt
fmt(self) ==
    message_string(self.error.message) \o ":\n"
        \o join([i \in DOMAIN self.error.locations |->
                     fmt_location(self.error.locations[i], self.sources[i])],
                "\n\n")

Printed(text) == [some |-> TRUE, text |-> text]

\* The files, the spans, the messages and the sources of the calls.
Files == {"a.graphql", "b.graphql"}
Spans == {"0:5", "8:9"}
Messages == {ExpectedVariablesToBeDefined, SyntaxError("Unexpected token")}
SourceTexts == [f \in Files |-> IF f = "a.graphql" THEN "query Q { x }"
                                ELSE "fragment F on T { y }"]

LocationLists ==
    UNION {[1..n -> {Location(file, span) : file \in Files, span \in Spans}] :
              n \in 0..MaxLocations}

InitErrors ==
    /\ NotTransforming
    /\ NotBuilding
    /\ NotCompiling
    /\ pc = "errors"
    /\ \E message \in Messages, locations \in LocationLists, files \in SUBSET Files :
           error_call = [message |-> message, locations |-> locations,
                         sources |-> [f \in files |-> SourceTexts[f]]]
    /\ validation_error = NoValidationError
    /\ error_with_sources = NoErrorWithSources
    /\ printed = None
    /\ displayed = None
    /\ NotCalling

\* ValidationError::new(message, locations)
NewValidationError ==
    /\ pc = "errors"
    /\ ~validation_error.constructed
    /\ ~error_with_sources.attached
    /\ validation_error' = ValidationError_new(error_call.message, error_call.locations)
    /\ UNCHANGED <<program, cache, operations, fragments, next_program, pc, view,
                   build_vars, compile_vars, call_vars, error_call, error_with_sources,
                   printed, displayed>>

\* error.print(&sources)
PrintValidationError ==
    /\ pc = "errors"
    /\ validation_error.constructed
    /\ ~printed.some
    /\ printed' = Printed(ValidationError_print(validation_error, error_call.sources))
    /\ UNCHANGED <<program, cache, operations, fragments, next_program, pc, view,
                   build_vars, compile_vars, call_vars, error_call, validation_error,
                   error_with_sources, displayed>>

\* error.with_sources(&sources), which takes the error.
WithSources ==
    /\ pc = "errors"
    /\ validation_error.constructed
    /\ error_with_sources' = with_sources(validation_error, error_call.sources)
    /\ validation_error' = NoValidationError
    /\ UNCHANGED <<program, cache, operations, fragments, next_program, pc, view,
                   build_vars, compile_vars, call_vars, error_call, printed, displayed>>

\* format!("{}", error_with_sources)
DisplayErrorWithSources ==
    /\ pc = "errors"
    /\ error_with_sources.attached
    /\ ~displayed.some
    /\ displayed' = Printed(fmt(error_with_sources))
    /\ UNCHANGED <<program, cache, operations, fragments, next_program, pc, view,
                   build_vars, compile_vars, call_vars, error_call, validation_error,
                   error_with_sources, printed>>

NextErrors ==
    \/ NewValidationError
    \/ PrintValidationError
    \/ WithSources
    \/ DisplayErrorWithSources

SpecErrors == InitErrors /\ [][NextErrors]_vars

\* The listings of the locations from the i-th, each after a blank line but
\* the first.
RECURSIVE Listings(_, _, _)
Listings(locations, sources, i) ==
    IF i > Len(locations) THEN ""
    ELSE (IF i > 1 THEN "\n\n" ELSE "")
         \o locations[i].file \o ":" \o locations[i].span \o ":\n> "
         \o (IF locations[i].file \in DOMAIN sources THEN sources[locations[i].file]
             ELSE "<source not found>")
         \o Listings(locations, sources, i + 1)

\* C23: every ValidationError that is constructed carries at least one
\* location, and what print gives is the message followed by one listing for
\* each location, the listings separated by a blank line.
C23_EveryValidationErrorHasALocation ==
    /\ validation_error.constructed => Len(validation_error.locations) >= 1
    /\ error_with_sources.attached => Len(error_with_sources.error.locations) >= 1
    /\ printed.some
           => /\ Len(error_call.locations) >= 1
              /\ printed.text =
                     message_string(error_call.message) \o ":\n"
                         \o Listings(error_call.locations, error_call.sources, 1)

\* What print gives is the message followed by one listing for each location.
PrintedListings ==
    printed.some
        => printed.text =
               message_string(error_call.message) \o ":\n"
                   \o Listings(error_call.locations, error_call.sources, 1)


\* The sources that with_sources stores: one for each location, in the order
\* of the locations, none for a file that the sources do not hold.
OneSourceForEachLocation ==
    error_with_sources.attached
        => /\ Len(error_with_sources.sources) = Len(error_call.locations)
           /\ \A i \in DOMAIN error_call.locations :
                  error_with_sources.sources[i] =
                      IF error_call.locations[i].file \in DOMAIN error_call.sources
                      THEN [some |-> TRUE,
                            source |-> error_call.sources[error_call.locations[i].file]]
                      ELSE None

\* C29: print with the sources S and the Display of with_sources(S) give the
\* same text, also for a location whose file S does not hold, and
\* with_sources stores one optional source for each location, in their order.
C29_PrintIsTheDisplayWithSources ==
    /\ printed.some /\ displayed.some => printed.text = displayed.text
    /\ OneSourceForEachLocation



\* ---------------------------------------------------------------------
\* relay-lsp/src/utils.rs: create_node_resolution_info.
\* ---------------------------------------------------------------------

MaxOffset == 30

\* common::Span and Span::contains.
Span(start, end) == [start |-> start, end |-> end]
span_contains(span, other) == span.start <= other.start /\ other.end <= span.end

\* graphql_syntax: an identifier with its span, and the selections.
Identifier(value, span) == [value |-> value, span |-> span]

SyntaxScalarField(name, arguments, span) ==
    [kind |-> "ScalarField", name |-> name, arguments |-> arguments,
     directives |-> <<>>, span |-> span]
SyntaxLinkedField(name, selections, span) ==
    [kind |-> "LinkedField", name |-> name, arguments |-> <<>>,
     directives |-> <<>>, selections |-> selections, span |-> span]
SyntaxFragmentSpread(name, span) ==
    [kind |-> "FragmentSpread", name |-> name, directives |-> <<>>, span |-> span]
\* The type condition is "" for an inline fragment that has none.
SyntaxInlineFragment(type_condition, selections, span) ==
    [kind |-> "InlineFragment", type_condition |-> type_condition,
     directives |-> <<>>, selections |-> selections, span |-> span]
\* The operation is "" for a query in the short form, that has no keyword.
SyntaxOperation(operation_kind, selections, location) ==
    [kind |-> "Operation", operation |-> operation_kind, variable_definitions |-> <<>>,
     selections |-> selections, location |-> location]
SyntaxFragment(name, type_condition, selections, location) ==
    [kind |-> "Fragment", name |-> name, type_condition |-> type_condition,
     directives |-> <<>>, selections |-> selections, location |-> location]

\* NodeKind, TypePathItem and NodeResolutionInfo.
NodeKind(kind, name, argument) == [kind |-> kind, name |-> name, argument |-> argument]
TypePathItem(item, name) == [item |-> item, name |-> name]
NodeResolutionInfo(kind, type_path, project_name) ==
    [ok |-> TRUE, kind |-> kind, type_path |-> type_path, project_name |-> project_name]
LSPRuntimeError(error) == [ok |-> FALSE, error |-> error]

\* `items.iter().find(|item| item.span.contains(position_span))`: the index of
\* the first item of the spans that contains the position, 0 for None.
find_containing(spans, position_span) ==
    IF \E i \in DOMAIN spans : span_contains(spans[i], position_span)
    THEN CHOOSE i \in DOMAIN spans :
             /\ span_contains(spans[i], position_span)
             /\ \A j \in 1..(i - 1) : ~span_contains(spans[j], position_span)
    ELSE 0

spans_of(items) == [i \in DOMAIN items |-> items[i].span]

\* build_node_resolution_for_directive; None when no directive holds the position.
build_node_resolution_for_directive(directives, position_span, project_name) ==
    IF find_containing(spans_of(directives), position_span) = 0
    THEN [some |-> FALSE]
    ELSE [some |-> TRUE,
          info |-> NodeResolutionInfo(
                       NodeKind("Directive",
                                directives[find_containing(spans_of(directives),
                                                           position_span)].name.value,
                                ""),
                       <<>>, project_name)]

\* build_node_resolution_info_for_argument: the info with the kind of the
\* argument that holds the position, or None.
build_node_resolution_info_for_argument(field_name, arguments, position_span, info) ==
    IF find_containing(spans_of(arguments), position_span) = 0
    THEN [some |-> FALSE]
    ELSE [some |-> TRUE,
          info |-> [info EXCEPT
                        !.kind =
                            NodeKind("FieldArgument", field_name,
                                     arguments[find_containing(spans_of(arguments),
                                                               position_span)].name.value)]]

add_type(info, item) == [info EXCEPT !.type_path = Append(@, item)]

RECURSIVE build_node_resolution_info_from_selections(_, _, _)
RECURSIVE build_node_resolution_info_from_item(_, _, _)

\* The `match item` of build_node_resolution_info_from_selections.
build_node_resolution_info_from_item(item, position_span, info) ==
    CASE item.kind = "LinkedField" ->
             IF build_node_resolution_info_for_argument(
                    item.name.value, item.arguments, position_span,
                    [info EXCEPT !.kind = NodeKind("FieldName", "", "")]).some
             THEN build_node_resolution_info_for_argument(
                      item.name.value, item.arguments, position_span,
                      [info EXCEPT !.kind = NodeKind("FieldName", "", "")]).info
             ELSE build_node_resolution_info_from_selections(
                      item.selections, position_span,
                      add_type([info EXCEPT !.kind = NodeKind("FieldName", "", "")],
                               TypePathItem("LinkedField", item.name.value)))
      [] item.kind = "FragmentSpread" ->
             IF span_contains(item.name.span, position_span)
             THEN [info EXCEPT !.kind = NodeKind("FragmentSpread", item.name.value, "")]
             ELSE info
      [] item.kind = "InlineFragment" ->
             IF item.type_condition # ""
             THEN build_node_resolution_info_from_selections(
                      item.selections, position_span,
                      add_type(info, TypePathItem("InlineFragment", item.type_condition)))
             ELSE info
      [] OTHER ->
             IF build_node_resolution_info_for_argument(
                    item.name.value, item.arguments, position_span, info).some
             THEN build_node_resolution_info_for_argument(
                      item.name.value, item.arguments, position_span, info).info
             ELSE add_type([info EXCEPT !.kind = NodeKind("FieldName", "", "")],
                           TypePathItem("ScalarField", item.name.value))

build_node_resolution_info_from_selections(selections, position_span, info) ==
    IF find_containing(spans_of(selections), position_span) = 0 THEN info
    ELSE IF build_node_resolution_for_directive(
                selections[find_containing(spans_of(selections), position_span)].directives,
                position_span, info.project_name).some
         THEN [info EXCEPT
                   !.kind =
                       build_node_resolution_for_directive(
                           selections[find_containing(spans_of(selections),
                                                      position_span)].directives,
                           position_span, info.project_name).info.kind]
         ELSE build_node_resolution_info_from_item(
                  selections[find_containing(spans_of(selections), position_span)],
                  position_span, info)

\* The arm of an operation.
resolution_of_operation(operation_definition, position_span, project_name) ==
    IF find_containing(spans_of(operation_definition.variable_definitions), position_span) # 0
    THEN NodeResolutionInfo(
             NodeKind("Variable",
                      operation_definition.variable_definitions[
                          find_containing(spans_of(operation_definition.variable_definitions),
                                          position_span)].type_,
                      ""),
             <<>>, project_name)
    ELSE IF operation_definition.operation = ""
         THEN LSPRuntimeError("UnexpectedError: Expected operation to exist, but it did not")
         ELSE build_node_resolution_info_from_selections(
                  operation_definition.selections, position_span,
                  NodeResolutionInfo(NodeKind("OperationDefinition", "", ""),
                                     <<TypePathItem("Operation", operation_definition.operation)>>,
                                     project_name))

\* The arm of a fragment.
resolution_of_fragment(fragment, position_span, project_name) ==
    IF build_node_resolution_for_directive(fragment.directives, position_span,
                                           project_name).some
    THEN build_node_resolution_for_directive(fragment.directives, position_span,
                                             project_name).info
    ELSE build_node_resolution_info_from_selections(
             fragment.selections, position_span,
             NodeResolutionInfo(NodeKind("FragmentDefinition", fragment.name.value, ""),
                                <<TypePathItem("FragmentDefinition",
                                               fragment.type_condition)>>,
                                project_name))

locations_of(definitions) == [i \in DOMAIN definitions |-> definitions[i].location]

resolution_of_definition(definition, position_span, project_name) ==
    IF definition.kind = "Operation"
    THEN resolution_of_operation(definition, position_span, project_name)
    ELSE resolution_of_fragment(definition, position_span, project_name)

create_node_resolution_info(document, position_span, project_name) ==
    IF find_containing(locations_of(document.definitions), position_span) = 0
    THEN LSPRuntimeError("ExpectedError")
    ELSE resolution_of_definition(
             document.definitions[find_containing(locations_of(document.definitions),
                                                  position_span)],
             position_span, project_name)


\* The documents: selections written with names of one character, one space
\* between two selections or definitions, as in
\* `fragment F on T{...on T{p{y}}}`, and the spans that the parser gives them.
Scalar(name) == [u |-> "scalar", name |-> name]
ScalarWithArgument(name) == [u |-> "scalar_with_argument", name |-> name]
Linked(name, selections) == [u |-> "linked", name |-> name, selections |-> selections]
Spread(name) == [u |-> "spread", name |-> name]
Inline(type_condition, selections) ==
    [u |-> "inline", type_condition |-> type_condition, selections |-> selections]
Definition(keyword, selections) == [u |-> keyword, selections |-> selections]

\* The length of what precedes the selections.
PrefixLength(written) ==
    CASE written.u = "linked" -> 2
      [] written.u = "inline" -> IF written.type_condition = "" THEN 4 ELSE 8
      [] written.u = "query" -> 8
      [] written.u = "shorthand" -> 1
      [] written.u = "fragment" -> 16

RECURSIVE TextLength(_)
RECURSIVE TextLengthOfList(_)
TextLength(written) ==
    CASE written.u = "scalar" -> 1
      [] written.u = "scalar_with_argument" -> 6
      [] written.u = "spread" -> 4
      [] OTHER -> PrefixLength(written) + TextLengthOfList(written.selections) + 1

TextLengthOfList(list) ==
    IF list = <<>> THEN 0
    ELSE IF Len(list) = 1 THEN TextLength(list[1])
         ELSE TextLength(list[1]) + 1 + TextLengthOfList(Tail(list))

RECURSIVE Parsed(_, _)
RECURSIVE ParsedList(_, _)
Parsed(written, start) ==
    CASE written.u = "scalar" ->
             SyntaxScalarField(Identifier(written.name, Span(start, start + 1)), <<>>,
                               Span(start, start + 1))
      [] written.u = "scalar_with_argument" ->
             SyntaxScalarField(
                 Identifier(written.name, Span(start, start + 1)),
                 <<[name |-> Identifier("a", Span(start + 2, start + 3)),
                    span |-> Span(start + 2, start + 5)]>>,
                 Span(start, start + 6))
      [] written.u = "spread" ->
             SyntaxFragmentSpread(Identifier(written.name, Span(start + 3, start + 4)),
                                  Span(start, start + 4))
      [] written.u = "linked" ->
             SyntaxLinkedField(Identifier(written.name, Span(start, start + 1)),
                               ParsedList(written.selections, start + 2),
                               Span(start, start + TextLength(written)))
      [] written.u = "inline" ->
             SyntaxInlineFragment(
                 written.type_condition,
                 ParsedList(written.selections, start + PrefixLength(written)),
                 Span(start, start + TextLength(written)))
      [] written.u = "fragment" ->
             SyntaxFragment(Identifier("F", Span(start + 9, start + 10)), "T",
                            ParsedList(written.selections, start + 16),
                            Span(start, start + TextLength(written)))
      [] written.u = "query" ->
             SyntaxOperation("query", ParsedList(written.selections, start + 8),
                             Span(start, start + TextLength(written)))
      [] written.u = "shorthand" ->
             SyntaxOperation("", ParsedList(written.selections, start + 1),
                             Span(start, start + TextLength(written)))

ParsedList(list, start) ==
    IF list = <<>> THEN <<>>
    ELSE <<Parsed(list[1], start)>>
             \o ParsedList(Tail(list), start + TextLength(list[1]) + 1)

WrittenSelections ==
    {<<Scalar("x")>>,
     <<ScalarWithArgument("x"), Spread("G")>>,
     <<Linked("p", <<Scalar("y")>>)>>,
     <<Inline("T", <<Linked("p", <<Scalar("y")>>)>>)>>,
     <<Inline("", <<Scalar("y")>>)>>,
     <<Linked("p", <<Inline("", <<Scalar("y")>>)>>)>>}

WrittenDefinitions ==
    {Definition(keyword, selections) :
        keyword \in {"query", "shorthand", "fragment"}, selections \in WrittenSelections}

WrittenDocuments ==
    {<<definition>> : definition \in WrittenDefinitions}
        \cup {<<Definition("fragment", <<Scalar("x")>>), definition>> :
                 definition \in WrittenDefinitions}

PositionSpans ==
    {Span(start, start + length) : start \in 0..MaxOffset, length \in {0, 1}}

InitResolution ==
    /\ NotTransforming
    /\ NotBuilding
    /\ NotCompiling
    /\ NotPrinting
    /\ pc = "call"
    /\ \E written \in WrittenDocuments, position_span \in PositionSpans :
           call = [function |-> "create_node_resolution_info",
                   document |-> [definitions |-> ParsedList(written, 0)],
                   position_span |-> position_span,
                   project_name |-> "test_project"]
    /\ returned = NotReturned

Returned(value) == [returned |-> TRUE, value |-> value]

CreateNodeResolutionInfo ==
    /\ pc = "call"
    /\ call.function = "create_node_resolution_info"
    /\ returned' = Returned(create_node_resolution_info(
                                call.document, call.position_span, call.project_name))
    /\ pc' = "done"
    /\ UNCHANGED <<program, cache, operations, fragments, next_program, view,
                   build_vars, compile_vars, error_vars, call>>

NextResolution == CreateNodeResolutionInfo

SpecResolution == InitResolution /\ [][NextResolution]_vars

\* The type paths from `path` to the scalar fields at and below `selections`
\* on whose name the position lies: the linked fields and the inline
\* fragments with a type condition that enclose the field, then the field.
RECURSIVE ScalarNamePaths(_, _, _)
ScalarNamePaths(selections, position_span, path) ==
    UNION {CASE selections[i].kind = "ScalarField" ->
                    IF span_contains(selections[i].name.span, position_span)
                    THEN {Append(path, [item |-> "ScalarField",
                                        name |-> selections[i].name.value])}
                    ELSE {}
             [] selections[i].kind = "LinkedField" ->
                    ScalarNamePaths(selections[i].selections, position_span,
                                    Append(path, [item |-> "LinkedField",
                                                  name |-> selections[i].name.value]))
             [] selections[i].kind = "InlineFragment" ->
                    ScalarNamePaths(selections[i].selections, position_span,
                                    IF selections[i].type_condition = "" THEN path
                                    ELSE Append(path,
                                                [item |-> "InlineFragment",
                                                 name |-> selections[i].type_condition]))
             [] OTHER -> {} :
           i \in DOMAIN selections}

\* The root of the type path of a definition.
RootOf(definition) ==
    IF definition.kind = "Fragment"
    THEN [item |-> "FragmentDefinition", name |-> definition.type_condition]
    ELSE [item |-> "Operation", name |-> "query"]

ScalarNamePathsOfDocument(definitions, position_span) ==
    UNION {ScalarNamePaths(definitions[i].selections, position_span,
                           <<RootOf(definitions[i])>>) :
              i \in DOMAIN definitions}

\* C24: create_node_resolution_info returns an error when no definition of
\* the document contains the position; when the position lies on the name of
\* a scalar field it returns the kind FieldName and the type path of the
\* root of the definition, the linked fields and the inline fragments with a
\* type condition that enclose the field, in their order, and the field.
C24_ScalarFieldNameIsResolved ==
    returned.returned /\ call.function = "create_node_resolution_info"
        => /\ (\A i \in DOMAIN call.document.definitions :
                   ~span_contains(call.document.definitions[i].location,
                                  call.position_span))
                  => ~returned.value.ok
           /\ \A path \in ScalarNamePathsOfDocument(call.document.definitions,
                                                    call.position_span) :
                  /\ returned.value.ok
                  /\ returned.value.kind.kind = "FieldName"
                  /\ returned.value.type_path = path

\* The same for the operations with a keyword and the fields that no inline
\* fragment without a type condition encloses.
ResolvedOutsideUntypedFragments ==
    returned.returned /\ call.function = "create_node_resolution_info"
        => /\ (\A i \in DOMAIN call.document.definitions :
                   ~span_contains(call.document.definitions[i].location,
                                  call.position_span))
                  => ~returned.value.ok
           /\ \A path \in ScalarNamePathsOfDocument(call.document.definitions,
                                                    call.position_span) :
                  \/ /\ returned.value.ok
                     /\ returned.value.kind.kind = "FieldName"
                     /\ returned.value.type_path = path
                  \/ \E i \in DOMAIN call.document.definitions :
                         /\ span_contains(call.document.definitions[i].location,
                                          call.position_span)
                         /\ \/ /\ call.document.definitions[i].kind = "Operation"
                               /\ call.document.definitions[i].operation = ""
                            \/ \E j \in DOMAIN call.document.definitions[i].selections :
                                   LET selection ==
                                           call.document.definitions[i].selections[j]
                                   IN  \/ /\ selection.kind = "InlineFragment"
                                          /\ selection.type_condition = ""
                                       \/ /\ selection.kind = "LinkedField"
                                          /\ selection.selections[1].kind = "InlineFragment"



\* ---------------------------------------------------------------------
\* relay-lsp/src/utils.rs: position_to_span.
\* ---------------------------------------------------------------------

MaxChars == 3
MaxLines == 2

\* The characters of a text: a letter, U+000A and U+000D.
LF == "LF"
CR == "CR"
LineTerminators == {LF, CR, "LS", "PS"}

Position(line, character) == [line |-> line, character |-> character]
GraphQLSource(text, line_index) == [text |-> text, line_index |-> line_index]

\* `chars.peek()` is the character after the one at `index`, counted from 0.
is_newline(chars, index) ==
    /\ chars[index + 1] \in LineTerminators
    /\ ~(/\ chars[index + 1] = CR
         /\ index + 2 <= Len(chars)
         /\ chars[index + 2] = CR)

SomeSpan(span) == [some |-> TRUE, span |-> span]

\* The loop of position_to_span from the character at `index`; the offsets
\* of the texts of the model are far below the 2^32 of the cast to u32.
RECURSIVE position_to_span_loop(_, _, _, _, _)
position_to_span_loop(chars, index, line_index, index_of_last_line, position) ==
    IF index >= Len(chars) THEN None
    ELSE IF (IF is_newline(chars, index) THEN line_index + 1 ELSE line_index)
                = position.line
         THEN SomeSpan(Span((IF is_newline(chars, index) THEN index
                             ELSE index_of_last_line) + position.character,
                            (IF is_newline(chars, index) THEN index
                             ELSE index_of_last_line) + position.character))
         ELSE position_to_span_loop(
                  chars, index + 1,
                  IF is_newline(chars, index) THEN line_index + 1 ELSE line_index,
                  IF is_newline(chars, index) THEN index ELSE index_of_last_line,
                  position)

position_to_span(position, source) ==
    position_to_span_loop(source.text, 0, source.line_index, 0, position)

\* Lines 128-130 of extract_executable_document_from_text.
position_span_or_error(span) ==
    IF span.some THEN [ok |-> TRUE, position_span |-> span.span]
    ELSE LSPRuntimeError("UnexpectedError: Failed to map positions to spans")

Texts == UNION {[1..n -> {"a", LF, CR}] : n \in 0..MaxChars}

InitPosition ==
    /\ NotTransforming
    /\ NotBuilding
    /\ NotCompiling
    /\ NotPrinting
    /\ pc = "call"
    /\ \E text \in Texts, line_index \in {0, 2}, k \in 0..MaxLines, character \in {0, 1} :
           call = [function |-> "position_to_span",
                   position |-> Position(line_index + k, character),
                   source |-> GraphQLSource(text, line_index)]
    /\ returned = NotReturned

PositionToSpan ==
    /\ pc = "call"
    /\ call.function = "position_to_span"
    /\ returned' = Returned(position_span_or_error(
                                position_to_span(call.position, call.source)))
    /\ pc' = "done"
    /\ UNCHANGED <<program, cache, operations, fragments, next_program, view,
                   build_vars, compile_vars, error_vars, call>>

NextPosition == PositionToSpan

SpecPosition == InitPosition /\ [][NextPosition]_vars

\* The index, counted from 0, of the first character of each line of a text,
\* a CR LF pair being one line terminator: `start` is the one of the line
\* that holds the character at `index`.
RECURSIVE LineStarts(_, _, _)
LineStarts(chars, index, start) ==
    IF index >= Len(chars) THEN <<start>>
    ELSE IF chars[index + 1] \notin LineTerminators
         THEN LineStarts(chars, index + 1, start)
         ELSE IF chars[index + 1] = CR /\ index + 2 <= Len(chars) /\ chars[index + 2] = LF
              THEN <<start>> \o LineStarts(chars, index + 2, index + 2)
              ELSE <<start>> \o LineStarts(chars, index + 1, index + 1)

\* The span of a position, by the lines of the text.
SpanByLines(starts, k, character) ==
    IF k + 1 <= Len(starts)
    THEN [ok |-> TRUE,
          position_span |-> Span(starts[k + 1] + character, starts[k + 1] + character)]
    ELSE LSPRuntimeError("UnexpectedError: Failed to map positions to spans")

\* C30: position_to_span gives, for a position on the line
\* source.line_index + k, the span of no length at the index of the first
\* character of the k-th line of the text plus position.character, a CR LF
\* pair being one line terminator, and None only for a line beyond the last.
C30_PositionIsTheOffsetInItsLine ==
    returned.returned /\ call.function = "position_to_span"
        => returned.value =
               SpanByLines(LineStarts(call.source.text, 0, 0),
                           call.position.line - call.source.line_index,
                           call.position.character)

\* On the first line of a text that does not begin with a line terminator
\* the span is the one of the claim.
FirstLineOffset ==
    (/\ returned.returned
     /\ call.function = "position_to_span"
     /\ call.position.line = call.source.line_index
     /\ call.source.text # <<>>
     /\ call.source.text[1] \notin LineTerminators)
        => returned.value =
               [ok |-> TRUE,
                position_span |-> Span(call.position.character, call.position.character)]



\* ---------------------------------------------------------------------
\* skip_redundant_nodes.rs: get_partitioned_selections and
\* transform_selections as functions of a list of selections.
\* ---------------------------------------------------------------------

MaxSelections == 4

\* The selections of the lists: two scalar fields, a fragment spread, and a
\* linked field, an inline fragment and a condition with selections.
LinkedAOfX == LinkedField(NoAlias, "a", <<>>, <<ScalarX>>, 0)
InlineAOfXAndY == InlineFragment("A", <<>>, <<ScalarX, ScalarYX>>, 0)
ConditionCOfX == Condition(TRUE, "c", <<ScalarX>>)

SelectionLists ==
    UNION {[1..n -> {ScalarX, ScalarYX, SpreadF, LinkedAOfX, InlineAOfXAndY,
                     ConditionCOfX}] :
              n \in 0..MaxSelections}

\* The selection maps of the calls: the empty one, and the one of a parent
\* that has selected x.
SelectionMaps == {EmptyMap, insert(EmptyMap, from_selection(schema, ScalarX), None)}

InitSelections ==
    /\ NotTransforming
    /\ NotBuilding
    /\ NotCompiling
    /\ NotPrinting
    /\ pc = "call"
    /\ \E selections \in SelectionLists :
           \/ call = [function |-> "get_partitioned_selections",
                      selections |-> selections]
           \/ \E selection_map \in SelectionMaps :
                  call = [function |-> "transform_selections",
                          selections |-> selections,
                          selection_map |-> selection_map]
    /\ returned = NotReturned

GetPartitionedSelections ==
    /\ pc = "call"
    /\ call.function = "get_partitioned_selections"
    /\ returned' = Returned(partition_loop(call.selections, 1,
                                           partition_start(call.selections)))
    /\ pc' = "done"
    /\ UNCHANGED <<program, cache, operations, fragments, next_program, view,
                   build_vars, compile_vars, error_vars, call>>

TransformSelections ==
    /\ pc = "call"
    /\ call.function = "transform_selections"
    /\ returned' = Returned(transform_selections(call.selections, call.selection_map,
                                                 EmptyCache))
    /\ pc' = "done"
    /\ UNCHANGED <<program, cache, operations, fragments, next_program, view,
                   build_vars, compile_vars, error_vars, call>>

NextSelections ==
    \/ GetPartitionedSelections
    \/ TransformSelections

SpecSelections == InitSelections /\ [][NextSelections]_vars

\* The fields of a list in their order, then the other selections in theirs.
FieldsFirst(selections) ==
    SelectSeq(selections, LAMBDA selection :
                              selection.kind \in {"ScalarField", "LinkedField"})
        \o SelectSeq(selections, LAMBDA selection :
                                     selection.kind \in {"InlineFragment", "Condition",
                                                         "FragmentSpread"})

NumberOfFields(selections) ==
    Cardinality({i \in DOMAIN selections :
                     selections[i].kind \in {"ScalarField", "LinkedField"}})

\* What the loop has done for a list of n selections, k of them fields.
StablePartition(selections, partition, n, k) ==
    /\ Len(partition.result) = n
    /\ partition.field_index = k
    /\ partition.non_field_index = n
    /\ Len(partition.writes) = n
    /\ \A i \in DOMAIN partition.writes : partition.writes[i] \in 0..(n - 1)
    /\ \A slot \in 0..(n - 1) :
           Cardinality({i \in DOMAIN partition.writes : partition.writes[i] = slot}) = 1
    /\ \A i \in 1..k : partition.result[i].kind \in {"ScalarField", "LinkedField"}
    /\ \A i \in (k + 1)..n :
           partition.result[i].kind \in {"InlineFragment", "Condition", "FragmentSpread"}
    /\ partition.result = FieldsFirst(selections)

\* C25: get_partitioned_selections returns a stable partition: the output
\* has the length n of the input, each slot is written once and none out of
\* bounds, the index of the fields ends at their number k and the one of the
\* other selections at n, the fields are at [0,k) and the other selections
\* at [k,n), each group in the order of the input.
C25_PartitionIsStable ==
    returned.returned /\ call.function = "get_partitioned_selections"
        => StablePartition(call.selections, returned.value, Len(call.selections),
                           NumberOfFields(call.selections))

\* A list whose fields and other selections alternate has been partitioned.
C25_Witness ==
    /\ returned.returned
    /\ call.function = "get_partitioned_selections"
    /\ call.selections = <<SpreadF, ScalarYX, ConditionCOfX, ScalarX>>
    /\ returned.value.result = <<ScalarYX, ScalarX, SpreadF, ConditionCOfX>>
    /\ returned.value.writes = <<2, 0, 3, 1>>

\* What is left of the items of `partitioned` from the i-th: the item that is
\* kept, nothing for the one that is deleted, the new one for the one that
\* is replaced; `next_item` is the result of the transform of the i-th.
RECURSIVE Stitched(_, _, _, _)
StitchedAfter(partitioned, i, next_item) ==
    (CASE next_item.result.t = "Keep" -> <<partitioned[i]>>
       [] next_item.result.t = "Delete" -> <<>>
       [] OTHER -> <<next_item.result.v>>)
        \o Stitched(partitioned, i + 1, next_item.map, next_item.cache)

Stitched(partitioned, i, selection_map, c) ==
    IF i > Len(partitioned) THEN <<>>
    ELSE StitchedAfter(partitioned, i,
                       transform_selection(partitioned[i], selection_map, c))

\* C26: for a list that is not empty transform_selections returns Replace of
\* the fields-first stable partition of the list, without the children whose
\* result is Delete, with the new child for each result Replace and the
\* child itself for each Keep, in the order of the partition; for the empty
\* list it returns Keep.
C26_TransformSelectionsStitchesTheResults ==
    returned.returned /\ call.function = "transform_selections"
        => returned.value.result =
               IF call.selections = <<>> THEN Keep
               ELSE Replace(Stitched(FieldsFirst(call.selections), 1,
                                     call.selection_map, EmptyCache))

\* A field was kept, then its duplicate deleted, the inline fragment replaced
\* by the one without x, and the spread kept after the changes.
C26_Witness ==
    /\ returned.returned
    /\ call.function = "transform_selections"
    /\ call.selections = <<InlineAOfXAndY, ScalarX, SpreadF, ScalarX>>
    /\ call.selection_map = EmptyMap
    /\ returned.value.result =
           Replace(<<ScalarX, InlineFragment("A", <<>>, <<ScalarYX>>, 0), SpreadF>>)


\* The names of the definitions of a kind whose selections are not empty.
NamesOfNonEmpty(definitions) ==
    {name \in DOMAIN definitions : definitions[name].selections # <<>>}

\* C27: skip_redundant_nodes removes no definition and empties none: the
\* program that it returns has the names of the operations and of the
\* fragments of its input, and each definition whose selections are not
\* empty in the input has selections in the output.
C27_NoDefinitionIsRemovedOrEmptied ==
    /\ \A name \in DOMAIN operations : operations[name].name = name
    /\ \A name \in DOMAIN fragments : fragments[name].name = name
    /\ NamesOfNonEmpty(program.operations) \cap DOMAIN operations
           \subseteq NamesOfNonEmpty(operations)
    /\ NamesOfNonEmpty(program.fragments) \cap DOMAIN fragments
           \subseteq NamesOfNonEmpty(fragments)
    /\ pc = "done"
           => /\ DOMAIN next_program.operations = DOMAIN program.operations
              /\ DOMAIN next_program.fragments = DOMAIN program.fragments
              /\ NamesOfNonEmpty(program.operations)
                     \subseteq NamesOfNonEmpty(next_program.operations)
              /\ NamesOfNonEmpty(program.fragments)
                     \subseteq NamesOfNonEmpty(next_program.fragments)

\* The program of an operation and a fragment is returned, the operation
\* with fewer selections than it had and the fragment with selections.
C27_Witness ==
    /\ pc = "done"
    /\ \E name \in DOMAIN program.operations :
           /\ Len(next_program.operations[name].selections)
                  < Len(program.operations[name].selections)
           /\ next_program.operations[name].selections # <<>>
    /\ \E name \in DOMAIN program.fragments :
           next_program.fragments[name].selections # <<>>

(***************************************************************************)
(* generate_data_driven_dependency_metadata on one fragment that has       *)
(* directives of its own.                                                  *)
(***************************************************************************)
MaxNodesFragment == 3

\* `@relay(mask: false)` on a fragment definition.
RelayDirective == Directive("relay", <<Argument("mask", "false")>>)

FragmentDirectiveLists == {<<>>, <<RelayDirective>>}

\* The call `transform_fragment(fragment)` of the transform, with the hasher
\* of its maps.
InitFragmentCall ==
    /\ NotTransforming
    /\ NotBuilding
    /\ NotCompiling
    /\ NotPrinting
    /\ pc = "call"
    /\ \E shape \in Shapes(MaxNodesFragment) :
       \E leaves \in [LeafPositions(shape) -> {ScalarX, SpreadF, SpreadG}] :
       \E composites \in [InnerPositions(shape) -> ModuleFragments \cup {LinkedB}] :
       \E directives \in FragmentDirectiveLists :
       \E hasher \in Hashers :
           call = [function |-> "transform_fragment",
                   fragment |-> [FragmentDefinition(
                                     "F", "User",
                                     Labelled(shape, 1, leaves @@ composites).selections)
                                 EXCEPT !.directives = directives],
                   hasher |-> hasher]
    /\ returned = NotReturned

MetadataTransformFragment ==
    /\ pc = "call"
    /\ call.function = "transform_fragment"
    /\ returned' = Returned(metadata_transform_fragment(call.fragment, call.hasher))
    /\ pc' = "done"
    /\ UNCHANGED <<program, cache, operations, fragments, next_program, view,
                   build_vars, compile_vars, error_vars, call>>

NextFragmentCall == MetadataTransformFragment

SpecFragmentCall == InitFragmentCall /\ [][NextFragmentCall]_vars

\* The directives of a list that are the metadata directive.
MetadataDirectivesOf(directives) ==
    SelectSeq(directives,
              LAMBDA directive : directive.name = DATA_DRIVEN_DEPENDENCY_METADATA_KEY)

\* The directives of a list that are not the metadata directive.
OtherDirectivesOf(directives) ==
    SelectSeq(directives,
              LAMBDA directive : directive.name # DATA_DRIVEN_DEPENDENCY_METADATA_KEY)

\* C28: the transform only adds metadata. For a fragment with at least one
\* @module inline fragment the replacement has the name, the type condition
\* and the selections of the input, and its directives are every directive
\* of the input plus exactly one __dataDrivenDependencyMetadata; a fragment
\* without one is kept.
C28_MetadataOnlyAddsADirective ==
    (returned.returned /\ call.function = "transform_fragment"
         /\ ~returned.value.panicked)
    => IF ModuleUsesOf(call.fragment) # {}
       THEN /\ returned.value.result.t = "Replace"
            /\ LET next_fragment == returned.value.result.v
               IN  /\ next_fragment.name = call.fragment.name
                   /\ next_fragment.type_condition = call.fragment.type_condition
                   /\ next_fragment.selections = call.fragment.selections
                   /\ Len(MetadataDirectivesOf(next_fragment.directives)) = 1
                   /\ OtherDirectivesOf(next_fragment.directives)
                          = call.fragment.directives
       ELSE returned.value.result = Keep

\* What the transform does: the replacement differs from the input in its
\* directives only, which are the metadata directive alone.
ReplacementHasTheMetadataOnly ==
    (returned.returned /\ call.function = "transform_fragment"
         /\ ~returned.value.panicked)
    => IF ModuleUsesOf(call.fragment) # {}
       THEN /\ returned.value.result.t = "Replace"
            /\ LET next_fragment == returned.value.result.v
               IN  /\ [next_fragment EXCEPT !.directives = <<>>]
                          = [call.fragment EXCEPT !.directives = <<>>]
                   /\ Len(next_fragment.directives) = 1
                   /\ next_fragment.directives[1].name
                          = DATA_DRIVEN_DEPENDENCY_METADATA_KEY
       ELSE returned.value.result = Keep

====
